---- MODULE Spec2Model ----
(***************************************************************************)
(* Verification model of the code-intelligence retrieval engine:           *)
(*   - IncrementalUpdater (detectChangedFiles / updateGraph / removeFile), *)
(*     Indexer.generateIndex and the call-graph builder,                   *)
(*   - the file watcher with its debounce timer and the pipeline           *)
(*     operations it starts,                                               *)
(*   - the document identities and score arithmetic of HybridReranker.     *)
(*                                                                         *)
(* A file's content is abstracted to its digest (a small positive number); *)
(* digest 0 (Absent) stands for "not on disk" / "no entry in the map".     *)
(*                                                                         *)
(* Twelve specifications share the variables:                              *)
(*   Spec      the file system, the hash map and the corpus graph under    *)
(*             full indexing, incremental updates (each run as one step,   *)
(*             at any time, on any scan list) and removeFile;              *)
(*   SpecPipe  the watcher's timer and the asynchronous operations between *)
(*             their awaits;                                               *)
(*   SpecRank  indexing, HybridReranker.search and HybridReranker.rerank;  *)
(*   SpecConfig  the weights of HybridReranker under updateConfig;         *)
(*   SpecLex   BM25LexicalRetriever over tokenized documents;              *)
(*   SpecGraph GraphAwareRelevanceScorer under repeated loads, and the     *)
(*             orchestrator's combination of hybrid and graph scores;      *)
(*   SpecIntent  QueryIntentGraphBuilder over tagged queries;              *)
(*   SpecRace  one file between its two reads by the indexer and the       *)
(*             updater, under concurrent writes;                           *)
(*   SpecOrch  the versions of the orchestrator's indices under            *)
(*             initialize;                                                 *)
(*   SpecTok   the tokens of an indexed symbol;                            *)
(*   SpecImport  the import distance over any import graph;                *)
(*   SpecCentral the centrality of a freshly loaded corpus graph.          *)
(* Each leaves the variables of the others at their initial values.  Not   *)
(* followed: symbol.referencedBy, the edges of the syntax-tree pass, the   *)
(* content of the indices saved to disk.                                   *)
(***************************************************************************)
EXTENDS Integers, Sequences, FiniteSets, TLC

\* ------------------------------------------------------------------ bounds
NPaths == 2
MaxDigest == 2
MaxUpdates == 1
MaxOps == 2
MaxBurst == 2

MaxDocs == 2
MaxLine == 2
MaxRaw == 2
MaxQueries == 1
MaxConfigUpdates == 2
MaxLexDocs == 3
MaxTokens == 2
MaxLoads == 2

\* setTimeout(..., 2000) in scheduleIncrementalUpdate; one time unit = 1000 ms
DebounceDelay == 2

\* RerankerConfig defaults; scores are counted in tenths
Bm25Weight == 4
SemanticWeight == 6
RrfK == 60
RetrievalTopK == 50
FinalTopK == 20
\* SemanticRetriever.search keeps the documents with score > 0.3
RelevanceThreshold == 3
\* normalizeScore falls back to score / (score + 10)
SoftCap == 10

Absent == 0
Paths == 1..NPaths
Digests == 1..MaxDigest

\* ----------------------------------------------------------------- helpers
Range(s) == {s[i] : i \in DOMAIN s}

RECURSIVE SetToSeq(_)
SetToSeq(S) ==
  IF S = {} THEN <<>>
  ELSE LET m == CHOOSE x \in S : \A y \in S : x <= y
       IN <<m>> \o SetToSeq(S \ {m})

Min(a, b) == IF a < b THEN a ELSE b

Count(s, e) == Cardinality({i \in DOMAIN s : s[i] = e})

\* duplicate-free lists of paths (what FileScanner.findCodeFiles returns:
\* Array.from(new Set(...)))
ScanLists ==
  {s \in UNION {[1..n -> Paths] : n \in 0..NPaths} :
     \A i, j \in DOMAIN s : i # j => s[i] # s[j]}

VARIABLES
  disk,        \* host file system: path -> digest of the content, Absent if none
  fileHashes,  \* IncrementalUpdater.fileHashes: path -> stored digest, Absent if no entry
  hasIndex,    \* state.contextGraph / state.incrementalUpdater are non-null
  nodes,       \* state.contextGraph.nodes
  callGraph,   \* state.contextGraph.callGraph
  updates,     \* incremental updates applied since the last full index
  last,        \* the last call made: its name, inputs and returned values
  removal      \* history: how often a removed, hashed file was reported as deleted

updVars == <<disk, fileHashes, hasIndex, nodes, callGraph, updates, last, removal>>

VARIABLES
  pendingChanges,      \* setupFileWatcher: pendingChanges (a Set of paths)
  timers,              \* remaining delay of every live setTimeout timer
  updateTimeout,       \* the timer the handle updateTimeout refers to: {} or {delay}
  copilotInitialized,  \* state.copilotInitialized
  documents,           \* SemanticRetriever.documents: "none", "cleared", "built"
  ops,                 \* the async operations in flight: slot -> position
  lastRead,            \* what the last query found in documents
  quiet,               \* history: time since the last notification, up to DebounceDelay
  fired,               \* history: updates the timer started since the last notification
  burst                \* history: the current burst of notifications

pipeVars == <<pendingChanges, timers, updateTimeout, copilotInitialized,
              documents, ops, lastRead, quiet, fired, burst>>

VARIABLES
  bm25Documents,  \* BM25LexicalRetriever.documents
  semDocuments,   \* SemanticRetriever.documents
  asked,          \* queries answered since the last indexing
  rankOp,         \* the last call made on the retrievers
  rankIn,         \* its inputs: what the query scores against each document
  hybridResults,  \* the HybridResult[] it returned
  rankErr,        \* whether a vector-length error was thrown inside the call
                  \* and whether the call raised it to its caller
  finalResults    \* what combineScores made of hybridResults in query()

rankVars == <<bm25Documents, semDocuments, asked, rankOp, rankIn,
              hybridResults, rankErr, finalResults>>

VARIABLES
  config,        \* HybridReranker.config: the two weights over a common denominator
  configCall,    \* the last constructor / updateConfig call and the weights before it
  configUpdates  \* updateConfig calls made so far

configVars == <<config, configCall, configUpdates>>

VARIABLES
  lexIndex,    \* BM25LexicalRetriever: documents, invertedIndex, idfScores, lengths
  lexCall,     \* the last call on it: indexSearchIndex or search(query, topK)
  lexResults   \* the BM25Result[] the last search returned

lexVars == <<lexIndex, lexCall, lexResults>>

VARIABLES
  graphStore,   \* GraphAwareRelevanceScorer: contextGraph, the maps, symbolCentrality
  graphLoads,   \* loadContextGraph calls made so far
  graphQuery,   \* the last query: the query graph and the hybrid results it met
  graphScored,  \* what scoreSymbols returned for it
  graphFinal    \* what combineScores returned for it

graphVars == <<graphStore, graphLoads, graphQuery, graphScored, graphFinal>>

VARIABLES
  intentCall,   \* the last buildQueryIntentGraph call: the tagged query tokens
  intentGraph   \* the VirtualQueryGraph it returned

intentVars == <<intentCall, intentGraph>>

VARIABLES
  raceDisk,    \* the digest of one file's current content on disk
  raceNode,    \* the digest of the content its corpus node was extracted from
  raceHash,    \* the digest stored for it in fileHashes
  racePc,      \* where generateIndex / updateGraph stands with the file
  raceTmp,     \* the digest generateIndex computed, not yet installed
  raceReport   \* what the last detectChangedFiles said of the file

raceVars == <<raceDisk, raceNode, raceHash, racePc, raceTmp, raceReport>>

VARIABLES
  artifacts,   \* the version of the pair context-graph.json / search_index.json
  orch,        \* CopilotIntelligenceOrchestrator: what it loaded and built
  orchPc,      \* where its initialize stands, and who called it
  orchHost     \* state.copilotInitialized

orchVars == <<artifacts, orch, orchPc, orchHost>>

VARIABLES
  tokSymbol,   \* the symbol BM25LexicalRetriever.indexSearchIndex was given
  tokTokens    \* the tokens of the document it made of the symbol

tokVars == <<tokSymbol, tokTokens>>

VARIABLES
  importCall,    \* the last computeImportProximity call and the maps it met
  importResult   \* the distance and the proximity it computed

importVars == <<importCall, importResult>>

VARIABLES
  centralCall,   \* the graph a fresh scorer was given by loadContextGraph
  centralStore   \* the scorer's store after it

centralVars == <<centralCall, centralStore>>

moreVars == <<intentVars, raceVars, orchVars, tokVars, importVars,
              centralVars>>

\* the variables of the first six specifications
coreVars == <<updVars, pipeVars, rankVars, configVars, lexVars, graphVars>>

\* the variables of the specifications that follow the three above
extVars == <<configVars, lexVars, graphVars, moreVars>>

vars == <<updVars, pipeVars, rankVars, extVars>>

\* ------------------------------------------------ IncrementalUpdater (pure)

NoChanges == [modified |-> <<>>, deleted |-> <<>>, added |-> <<>>]

\* detectChangedFiles without the trailing loop over fileHashes
DetectChangedFilesNoSweep(P, H, D, U) ==
  [ modified |-> SelectSeq(P, LAMBDA p : D[p] # Absent /\ p \notin U
                                         /\ H[p] # Absent /\ H[p] # D[p]),
    deleted  |-> SelectSeq(P, LAMBDA p : D[p] = Absent /\ H[p] # Absent),
    added    |-> SelectSeq(P, LAMBDA p : D[p] # Absent /\ p \notin U
                                         /\ H[p] = Absent) ]

\* detectChangedFiles(filePaths) on hash map H and disk D, no cancellation.
\* The first loop pushes each scanned path to at most one list; the second
\* loop sweeps the stored paths that were not scanned and are not on disk.
\* U holds the scanned files that exist but whose calculateHash throws: the
\* catch block logs the error and the file reaches none of the lists.
DetectChangedFiles(P, H, D, U) ==
  [ modified |-> SelectSeq(P, LAMBDA p : D[p] # Absent /\ p \notin U
                                         /\ H[p] # Absent /\ H[p] # D[p]),
    deleted  |-> SelectSeq(P, LAMBDA p : D[p] = Absent /\ H[p] # Absent)
                 \o SetToSeq({p \in Paths : H[p] # Absent /\ p \notin Range(P)
                                            /\ D[p] = Absent}),
    added    |-> SelectSeq(P, LAMBDA p : D[p] # Absent /\ p \notin U
                                         /\ H[p] = Absent) ]

\* buildGraphNode: the node extracted from the current content of p
BuildGraphNode(p, D) == [filePath |-> p, ver |-> D[p]]

\* the imports of a node: content version 1 of file p imports one symbol
\* from the next file (cyclically); every other version imports nothing
Imports(n) ==
  IF n.ver = 1
  THEN <<[resolvedPath |-> (n.filePath % NPaths) + 1, symbol |-> n.filePath]>>
  ELSE <<>>

\* the edges one node contributes: one per import whose target has a node
RECURSIVE NodeEdges(_, _, _)
NodeEdges(ns, n, j) ==
  IF j > Len(Imports(n)) THEN <<>>
  ELSE LET imp == Imports(n)[j] IN
       (IF \E k \in DOMAIN ns : ns[k].filePath = imp.resolvedPath
        THEN <<[from |-> n.filePath, to |-> imp.resolvedPath, symbol |-> imp.symbol]>>
        ELSE <<>>) \o NodeEdges(ns, n, j + 1)

RECURSIVE CallEdges(_, _)
CallEdges(ns, i) ==
  IF i > Len(ns) THEN <<>>
  ELSE NodeEdges(ns, ns[i], 1) \o CallEdges(ns, i + 1)

\* buildCompleteCallGraphVSCode(graph): pushes onto graph.callGraph
BuildCompleteCallGraph(ns, cg) == cg \o CallEdges(ns, 1)

\* a from-scratch build starts from callGraph: []
ScratchCallGraph(ns) == BuildCompleteCallGraph(ns, <<>>)

\* what happens to one file of a run:
\*   "ok"   every step for the file succeeds
\*   "pre"  it fails before the run has recorded anything for it: the size
\*          check rejects it or statSync throws (in updateGraph also:
\*          buildGraphNode throws; in generateIndex also: calculateHash throws)
\*   "mid"  it fails between the run's two recordings: in updateGraph the node
\*          is pushed and calculateHash throws; in generateIndex the hash is
\*          stored and buildGraphNode throws
\*   "skip" cancellation was requested before the file's turn
\*   "none" the file is not part of the run
Outcomes == {"ok", "pre", "mid", "skip", "none"}
Failures == {"pre", "mid"}
NoOut == [p \in Paths |-> "none"]

\* the per-file outcomes one call can meet: a file that is not on disk fails
\* in statSync; a cancelled run skips every later file too
OutChoices(files, D) ==
  {o \in [Paths -> Outcomes] :
     /\ \A p \in Paths : (p \notin Range(files)) <=> (o[p] = "none")
     /\ \A p \in Range(files) : D[p] = Absent => o[p] \in {"pre", "skip"}
     /\ \A i, j \in DOMAIN files :
          (i < j /\ o[files[i]] = "skip") => o[files[j]] = "skip"}

\* updateGraph's loop over filesToParse, one failure ending the loop (a faulty variant)
RECURSIVE ParseLoopAbort(_, _, _, _, _, _, _)
ParseLoopAbort(files, i, out, D, ns, H, errs) ==
  IF i > Len(files) \/ out[files[i]] = "skip"
  THEN [nodes |-> ns, hashes |-> H, errors |-> errs]
  ELSE LET f == files[i] IN
       IF out[f] = "ok"
       THEN ParseLoopAbort(files, i + 1, out, D, Append(ns, BuildGraphNode(f, D)),
                           [H EXCEPT ![f] = D[f]], errs)
       ELSE [nodes |-> ns, hashes |-> H, errors |-> Append(errs, f)]

\* updateGraph's loop over filesToParse
RECURSIVE ParseLoop(_, _, _, _, _, _, _)
ParseLoop(files, i, out, D, ns, H, errs) ==
  IF i > Len(files) \/ out[files[i]] = "skip"
  THEN [nodes |-> ns, hashes |-> H, errors |-> errs]
  ELSE LET f == files[i] IN
       CASE out[f] = "pre" ->
              ParseLoop(files, i + 1, out, D, ns, H, Append(errs, f))
         [] out[f] = "mid" ->
              ParseLoop(files, i + 1, out, D, Append(ns, BuildGraphNode(f, D)),
                        H, Append(errs, f))
         [] OTHER ->
              ParseLoop(files, i + 1, out, D, Append(ns, BuildGraphNode(f, D)),
                        [H EXCEPT ![f] = D[f]], errs)

\* updateGraph that removes only the deleted files' nodes (a faulty variant)
UpdateGraphKeepModified(ns, cg, H, ch, out, D) ==
  LET kept == SelectSeq(ns, LAMBDA n : n.filePath \notin Range(ch.deleted))
      H1   == [p \in Paths |-> IF p \in Range(ch.deleted) THEN Absent ELSE H[p]]
      r    == ParseLoop(ch.added, 1, out, D, kept, H1, <<>>)
  IN [nodes |-> r.nodes, hashes |-> r.hashes, errors |-> r.errors,
      callGraph |-> BuildCompleteCallGraph(r.nodes, cg)]

\* updateGraph(graph, changedFiles): the nodes, hash map, call graph and
\* error list it leaves behind
UpdateGraph(ns, cg, H, ch, out, D) ==
  LET kept == SelectSeq(ns, LAMBDA n : n.filePath \notin Range(ch.deleted \o ch.modified))
      H1   == [p \in Paths |-> IF p \in Range(ch.deleted) THEN Absent ELSE H[p]]
      r    == ParseLoop(ch.modified \o ch.added, 1, out, D, kept, H1, <<>>)
  IN [nodes |-> r.nodes, hashes |-> r.hashes, errors |-> r.errors,
      callGraph |-> BuildCompleteCallGraph(r.nodes, cg)]

\* generateIndex's loop with the node pushed before the hash is taken, as
\* updateGraph has it (a faulty variant)
IndexLoopNodeFirst(files, i, out, D, ns, H, errs) ==
  ParseLoop(files, i, out, D, ns, H, errs)

\* Indexer.generateIndex's loop over the scanned files: the hash is stored
\* before the node is built
RECURSIVE IndexLoop(_, _, _, _, _, _, _)
IndexLoop(files, i, out, D, ns, H, errs) ==
  IF i > Len(files)
  THEN [nodes |-> ns, hashes |-> H, errors |-> errs]
  ELSE LET f == files[i] IN
       CASE out[f] = "pre" ->
              IndexLoop(files, i + 1, out, D, ns, H, Append(errs, f))
         [] out[f] = "mid" ->
              IndexLoop(files, i + 1, out, D, ns, [H EXCEPT ![f] = D[f]],
                        Append(errs, f))
         [] OTHER ->
              IndexLoop(files, i + 1, out, D, Append(ns, BuildGraphNode(f, D)),
                        [H EXCEPT ![f] = D[f]], errs)

\* Indexer.generateIndex's report: the same loop with its counters; big holds
\* the files whose size is over config.maxFileSize
NoReport == [totalFiles |-> 0, successfulFiles |-> 0, skippedFiles |-> 0,
             errors |-> <<>>]
RECURSIVE IndexReport(_, _, _, _, _)
IndexReport(files, i, out, big, rep) ==
  IF i > Len(files) THEN rep
  ELSE LET f == files[i] IN
       CASE out[f] = "pre" /\ f \in big ->
              IndexReport(files, i + 1, out, big,
                [rep EXCEPT !.skippedFiles = @ + 1,
                            !.errors = Append(@, [file |-> f,
                                                  phase |-> "scanning"])])
         [] out[f] \in Failures ->
              IndexReport(files, i + 1, out, big,
                [rep EXCEPT !.errors = Append(@, [file |-> f,
                                                  phase |-> "parsing"])])
         [] OTHER ->
              IndexReport(files, i + 1, out, big,
                [rep EXCEPT !.successfulFiles = @ + 1])

\* ------------------------------------------------------------ history

\* removal[p]: "none"    p is not a removed file with a stored hash
\*             "removed" p had a stored hash when it left the disk; no
\*                       detectChangedFiles call has returned since
\*             "once" / "twice"  p was reported under deleted once / more often
\*             "missed"  a detectChangedFiles call returned without reporting p
NoteDetect(rm, res) ==
  [p \in Paths |->
     IF p \in Range(res.deleted)
     THEN (CASE rm[p] = "removed" -> "once"
             [] rm[p] = "once"    -> "twice"
             [] OTHER             -> rm[p])
     ELSE (IF rm[p] = "removed" THEN "missed" ELSE rm[p])]

Call(op) == [op |-> op, scan |-> <<>>, unread |-> {}, result |-> NoChanges,
             out |-> NoOut, errors |-> <<>>,
             cancel |-> [requested |-> FALSE, step |-> 0, raised |-> FALSE],
             big |-> {}, report |-> NoReport]

TotalChanges(res) == Len(res.modified) + Len(res.deleted) + Len(res.added)

\* ------------------------------------------------- retrievers (pure)
\* A document id is kept as the list of its parts, the way split(':') sees
\* it (no part holds a colon).  Scores count tenths: One stands for 1.0; a
\* hybrid score, the sum of two weighted scores, counts hundredths.

One == Bm25Weight + SemanticWeight

\* the symbols of file "a": names s and t on each of its lines
AllLocs ==
  [k \in 1..(2 * MaxLine) |->
     [file |-> "a", line |-> ToString((k + 1) \div 2),
      symbol |-> IF k % 2 = 1 THEN "s" ELSE "t"]]
Locs == Range(AllLocs)
NoMeta == [file |-> "", line |-> "", symbol |-> ""]

\* searchIndex.symbolLocations: up to MaxDocs symbols, in file order
Corpora ==
  {[i \in DOMAIN SetToSeq(I) |-> AllLocs[SetToSeq(I)[i]]] :
     I \in {J \in SUBSET DOMAIN AllLocs : Cardinality(J) <= MaxDocs}}

\* `${symbol.file}:${symbol.line}:${symbol.symbol}`
Bm25Id(sym) == <<sym.file, sym.line, sym.symbol>>
\* `symbol:${symbol.file}:${symbol.symbol}:${symbol.line}`
SemanticId(sym) == <<"symbol", sym.file, sym.symbol, sym.line>>
\* `file:${file.path}`
FileId(path) == <<"file", path>>

Last(s) == s[Len(s)]
Take(s, k) == SubSeq(s, 1, Min(k, Len(s)))
Max(a, b) == IF a > b THEN a ELSE b

\* Array.prototype.sort with (a, b) => key(b) - key(a): stable, descending
\* keys holds the key of each element of s
StableSortDesc(s, keys) ==
  LET pos(i) == 1 + Cardinality({j \in DOMAIN s :
                       \/ keys[j] > keys[i]
                       \/ (keys[j] = keys[i] /\ j < i)})
  IN [p \in DOMAIN s |-> s[CHOOSE i \in DOMAIN s : pos(i) = p]]

\* results.sort((a, b) => b.score - a.score)
SortByScore(res) == StableSortDesc(res, [i \in DOMAIN res |-> res[i].score])

\* hybridResults.sort((a, b) => b.scores.rrf - a.scores.rrf), the ordering the
\* code leaves commented out (a faulty variant)
SortByRrf(res) ==
  StableSortDesc(res, [i \in DOMAIN res |->
                         (res[i].scores.rrf.num * 1000000)
                           \div res[i].scores.rrf.den])

\* hybridResults.sort((a, b) => b.scores.hybrid - a.scores.hybrid)
SortByHybrid(res) ==
  StableSortDesc(res, [i \in DOMAIN res |-> res[i].scores.hybrid])

\* BM25LexicalRetriever.indexSearchIndex(searchIndex)
Bm25Index(c) == [i \in DOMAIN c |-> [id |-> Bm25Id(c[i]), meta |-> c[i]]]

\* SemanticRetriever.indexSearchIndex(searchIndex): the symbols, then the files
SemanticIndex(c) ==
  [i \in DOMAIN c |-> [id |-> SemanticId(c[i]), meta |-> c[i]]]
  \o (IF Len(c) > 0
      THEN <<[id |-> FileId("a"), meta |-> [NoMeta EXCEPT !.file = "a"]]>>
      ELSE <<>>)

\* BM25LexicalRetriever.search: the documents scoring above 0, best first
Bm25Search(docs, raw, topK) ==
  LET scored == [i \in DOMAIN docs |->
                   [documentId |-> docs[i].id, score |-> raw[i],
                    meta |-> docs[i].meta]]
  IN Take(SortByScore(SelectSeq(scored, LAMBDA r : r.score > 0)), topK)

\* SemanticRetriever.search: the documents above the threshold, best first
SemanticSearch(docs, cos, topK) ==
  LET scored == [i \in DOMAIN docs |->
                   [documentId |-> docs[i].id, score |-> cos[i],
                    meta |-> docs[i].meta]]
  IN Take(SortByScore(SelectSeq(scored,
                                LAMBDA r : r.score > RelevanceThreshold)),
          topK)

\* BM25LexicalRetriever.getSymbolScore: the best score among the documents
\* of that symbol name, 0 if none
RECURSIVE Bm25SymbolScore(_, _, _, _)
Bm25SymbolScore(docs, raw, name, i) ==
  IF i > Len(docs) THEN 0
  ELSE Max(IF docs[i].meta.symbol = name THEN raw[i] ELSE 0,
           Bm25SymbolScore(docs, raw, name, i + 1))

\* cosineSimilarity of two vectors of different lengths: it throws 'Vector
\* dimensions must match'.  A query's cos holds this value, below every
\* cosine, for a document whose stored vector has another length.
DimensionError == 0 - 2 * One

\* SemanticRetriever.search computes the cosine of every document
SemanticThrows(docs, cos) == \E i \in DOMAIN docs : cos[i] = DimensionError

\* SemanticRetriever.getSymbolScore: the cosine of the first document of that
\* symbol name, 0 if none
SemanticSymbolScore(docs, cos, name) ==
  IF \E i \in DOMAIN docs : docs[i].meta.symbol = name
  THEN cos[CHOOSE i \in DOMAIN docs :
             /\ docs[i].meta.symbol = name
             /\ \A j \in DOMAIN docs : docs[j].meta.symbol = name => i <= j]
  ELSE 0

\* HybridReranker.getBM25Score
GetBM25Score(docs, raw, id) ==
  CASE Len(id) = 4 /\ id[1] = "symbol" -> Bm25SymbolScore(docs, raw, id[3], 1)
    [] Len(id) >= 3 /\ id[1] # "file" -> Bm25SymbolScore(docs, raw, Last(id), 1)
    [] OTHER -> 0

\* HybridReranker.getSemanticScore
GetSemanticScore(docs, cos, id) ==
  IF Len(id) >= 3 THEN SemanticSymbolScore(docs, cos, Last(id)) ELSE 0

\* rerank scores one candidate after the other and catches nothing
RerankThrows(docs, cos, candidateIds) ==
  \E k \in DOMAIN candidateIds :
    GetSemanticScore(docs, cos, candidateIds[k]) = DimensionError

\* HybridReranker.normalizeScore(score, 'bm25') with getMaxScore() = maxScore
NormalizeBm25(score, maxScore) ==
  IF maxScore > 0 THEN Min(One, (score * One) \div maxScore)
  ELSE (score * One) \div (score + SoftCap)

\* HybridReranker.normalizeScore(score, 'semantic')
NormalizeSemantic(score) == (score + One) \div 2

\* HybridReranker.computeRRF, as a fraction
ComputeRRF(rank1, rank2) ==
  [num |-> (RrfK + rank1) + (RrfK + rank2),
   den |-> (RrfK + rank1) * (RrfK + rank2)]

RankOf(res, id, default) ==
  IF \E i \in DOMAIN res : res[i].documentId = id
  THEN CHOOSE i \in DOMAIN res : res[i].documentId = id
  ELSE default

\* the ids of b, then the ids of s that b does not hold (a Set keeps the
\* order of first insertion)
UnionIds(b, s) ==
  [i \in DOMAIN b |-> b[i].documentId]
  \o SelectSeq([i \in DOMAIN s |-> s[i].documentId],
               LAMBDA id : \A i \in DOMAIN b : b[i].documentId # id)

WithRanks(res) == [i \in DOMAIN res |-> [res[i] EXCEPT !.rank = i]]

\* HybridReranker.search(query, topK); q holds what the query scores.  The
\* retrieval and the scoring run inside try { ... } catch { return [] }.
HybridSearch(bdocs, sdocs, q, topK) ==
  IF SemanticThrows(sdocs, q.cos) THEN <<>> ELSE
  LET finalTopK == IF topK > 0 THEN topK ELSE FinalTopK
      b   == Bm25Search(bdocs, q.raw, RetrievalTopK)
      sm  == SemanticSearch(sdocs, q.cos, RetrievalTopK)
      ids == UnionIds(b, sm)
      entry(id) ==
        LET br == RankOf(b, id, 0)
            sr == RankOf(sm, id, 0)
            bm25Score ==
              IF br = 0
              THEN NormalizeBm25(GetBM25Score(bdocs, q.raw, id), q.maxScore)
              ELSE NormalizeBm25(b[br].score, q.maxScore)
            semanticScore == IF sr = 0 THEN 0 ELSE sm[sr].score
        IN [documentId |-> id,
            meta |-> IF br # 0 THEN b[br].meta ELSE sm[sr].meta,
            scores |-> [bm25 |-> bm25Score,
                        semantic |-> semanticScore,
                        hybrid |-> Bm25Weight * bm25Score
                                   + SemanticWeight * semanticScore,
                        rrf |-> ComputeRRF(
                                  IF br = 0 THEN RetrievalTopK + 1 ELSE br,
                                  IF sr = 0 THEN RetrievalTopK + 1 ELSE sr)],
            rank |-> 0]
      all == [i \in DOMAIN ids |-> entry(ids[i])]
  IN WithRanks(Take(SortByHybrid(all), finalTopK))

\* HybridReranker.rerank(query, candidateIds, topK)
HybridRerank(bdocs, sdocs, q, candidateIds, topK) ==
  LET finalTopK == IF topK # 0 THEN topK ELSE Len(candidateIds)
      entry(id) ==
        LET bm25Score ==
              NormalizeBm25(GetBM25Score(bdocs, q.raw, id), q.maxScore)
            semanticScore == GetSemanticScore(sdocs, q.cos, id)
        IN [documentId |-> id,
            meta |-> NoMeta,
            scores |-> [bm25 |-> bm25Score,
                        semantic |-> semanticScore,
                        hybrid |-> Bm25Weight * bm25Score
                                   + SemanticWeight * semanticScore,
                        rrf |-> [num |-> 0, den |-> 1]],
            rank |-> 0]
      all == [i \in DOMAIN candidateIds |-> entry(candidateIds[i])]
  IN WithRanks(Take(SortByHybrid(all), finalTopK))

\* -------------------------------------------- BM25LexicalRetriever (pure)
\* A document is the list of its tokens, a query the list of the tokens that
\* tokenize(query) returns.  Scores count thousandths.

Tokens == {"x", "y"}
TokenLists(n) == UNION {[1..k -> Tokens] : k \in 0..n}

\* search: if (topK <= 0) topK = 10
DefaultLexTopK == 10

\* 1000 * log((N - df + 0.5) / (df + 0.5) + 1) = 1000 * ln((N + 1) / (df + 0.5)),
\* rounded, as IdfTable[N][df] for the corpus sizes met here
IdfTable ==
  << <<288>>,
     <<693, 182>>,
     <<981, 470, 134>>,
     <<1204, 693, 357, 105>> >>

RECURSIVE SumLengths(_, _)
SumLengths(docs, i) ==
  IF i > Len(docs) THEN 0 ELSE Len(docs[i]) + SumLengths(docs, i + 1)

\* buildInvertedIndex: token -> the documents that hold it (none: no entry)
BuildInvertedIndex(docs) ==
  [t \in Tokens |-> {i \in DOMAIN docs : t \in Range(docs[i])}]

\* calculateIDF: an entry for every token of the corpus (0: no entry)
CalculateIDF(docs) ==
  [t \in Tokens |->
     LET df == Cardinality({i \in DOMAIN docs : t \in Range(docs[i])})
     IN IF df = 0 THEN 0 ELSE IdfTable[Len(docs)][df]]

\* what indexSearchIndex leaves in the retriever; avgDocLength is
\* totalLength / totalDocs
NoLexIndex ==
  [documents |-> <<>>, invertedIndex |-> [t \in Tokens |-> {}],
   idfScores |-> [t \in Tokens |-> 0], totalLength |-> 0]

BuildLexIndex(docs) ==
  [documents |-> docs, invertedIndex |-> BuildInvertedIndex(docs),
   idfScores |-> CalculateIDF(docs), totalLength |-> SumLengths(docs, 1)]

\* calculateBM25Score(docIdx, queryTokens) with k1 = 1.5 and b = 0.75: the
\* term idf * tf * 2.5 / (tf + 1.5 * (0.25 + 0.75 * len / avg)) is
\* idf * 20 * tf * total / (8 * tf * total + 3 * total + 9 * len * N)
RECURSIVE CalculateBM25Score(_, _, _, _)
CalculateBM25Score(idx, d, q, j) ==
  IF j > Len(q) THEN 0
  ELSE LET doc   == idx.documents[d]
           tf    == Count(doc, q[j])
           total == idx.totalLength
           n     == Len(idx.documents)
       IN (IF tf = 0 THEN 0
           ELSE (idx.idfScores[q[j]] * 20 * tf * total)
                  \div (8 * tf * total + 3 * total + 9 * Len(doc) * n))
          + CalculateBM25Score(idx, d, q, j + 1)

\* getCandidates: the documents holding a query token, in the order a Set
\* receives them
RECURSIVE GetCandidates(_, _, _, _)
GetCandidates(idx, q, j, acc) ==
  IF j > Len(q) THEN acc
  ELSE GetCandidates(idx, q, j + 1,
         acc \o SelectSeq(SetToSeq(idx.invertedIndex[q[j]]),
                          LAMBDA d : d \notin Range(acc)))

LexScored(idx, q) ==
  LET cands == GetCandidates(idx, q, 1, <<>>)
  IN SelectSeq([i \in DOMAIN cands |->
                  [doc |-> cands[i],
                   score |-> CalculateBM25Score(idx, cands[i], q, 1)]],
               LAMBDA r : r.score > 0)

\* search that cuts the candidates to topK before sorting them (a faulty variant)
LexSearchCutFirst(idx, q, topK) ==
  IF Len(q) = 0 \/ Len(idx.documents) = 0 THEN <<>>
  ELSE SortByScore(Take(LexScored(idx, q),
                        IF topK <= 0 THEN DefaultLexTopK ELSE topK))

\* BM25LexicalRetriever.search(query, topK)
LexSearch(idx, q, topK) ==
  IF Len(q) = 0 \/ Len(idx.documents) = 0 THEN <<>>
  ELSE Take(SortByScore(LexScored(idx, q)),
            IF topK <= 0 THEN DefaultLexTopK ELSE topK)

LexCall(op, q, topK) == [op |-> op, tokens |-> q, topK |-> topK]

\* --------------------------------------- GraphAwareRelevanceScorer (pure)
\* Sub-scores count thousandths, the overall score hundred-thousandths.  The
\* names met here share no character, so computeSymbolAffinity is 1 for an
\* equal name and 0 for any other.

GraphFiles == {"a", "b"}
SymbolNames == {"f", "g"}
CallerSeq == <<"c0", "c1", "c2", "c3", "c4", "c5", "c6", "c7", "c8", "c9">>
CallerNames == Range(CallerSeq)
EdgeNames == SymbolNames \cup CallerNames

\* computeCentrality: iterations = 20, dampingFactor = 0.85 (in hundredths);
\* the mass of the iteration counts millionths
Iterations == 20
DampingFactor == 85
Mass == 1000000

\* 1000 * Math.exp(-d) for d = 0, 1, ..., 10, as ExpTable[d + 1]
ExpTable == <<1000, 368, 135, 50, 18, 7, 2, 1, 0, 0, 0>>
\* computeMinImportDistance: return 10 if not connected
MaxDistance == 10
\* 1000 * Math.log(n) / Math.log(10) for n = 1, ..., 9, as Log10Table[n]
Log10Table == <<0, 301, 477, 602, 699, 778, 845, 903, 954>>

\* new GraphAwareRelevanceScorer(): no graph, empty maps (no entry: {}, "", 0)
NoGraph == [nodes |-> <<>>, callGraph |-> {}]
NoStore ==
  [loaded |-> FALSE, contextGraph |-> NoGraph,
   callGraphMap |-> [n \in EdgeNames |-> {}],
   reverseCallGraph |-> [n \in EdgeNames |-> {}],
   importGraphMap |-> [p \in GraphFiles |-> {}],
   symbolToFile |-> [n \in EdgeNames |-> ""],
   symbolCentrality |-> [n \in EdgeNames |-> 0]]

\* the file of the last node that declares name n
RECURSIVE LastFileOf(_, _, _, _)
LastFileOf(ns, n, i, file) ==
  IF i > Len(ns) THEN file
  ELSE LastFileOf(ns, n, i + 1,
                  IF n \in Range(ns[i].symbols) THEN ns[i].filePath ELSE file)

\* buildGraphStructures: every edge and node is added to the maps as they are
BuildGraphStructures(st, g) ==
  [st EXCEPT
     !.loaded = TRUE,
     !.contextGraph = g,
     !.callGraphMap =
        [n \in EdgeNames |-> st.callGraphMap[n]
                               \cup {e[2] : e \in {x \in g.callGraph : x[1] = n}}],
     !.reverseCallGraph =
        [n \in EdgeNames |-> st.reverseCallGraph[n]
                               \cup {e[1] : e \in {x \in g.callGraph : x[2] = n}}],
     !.importGraphMap =
        [p \in GraphFiles |->
           IF \E i \in DOMAIN g.nodes : g.nodes[i].filePath = p
           THEN g.nodes[CHOOSE i \in DOMAIN g.nodes :
                          /\ g.nodes[i].filePath = p
                          /\ \A j \in DOMAIN g.nodes :
                               g.nodes[j].filePath = p => j <= i].imports
           ELSE st.importGraphMap[p]],
     !.symbolToFile =
        [n \in EdgeNames |-> LastFileOf(g.nodes, n, 1, st.symbolToFile[n])]]

\* the distinct symbol names of the nodes, in the order a Set receives them
RECURSIVE SymbolSet(_, _, _, _)
SymbolSet(ns, i, j, acc) ==
  IF i > Len(ns) THEN acc
  ELSE IF j > Len(ns[i].symbols) THEN SymbolSet(ns, i + 1, 1, acc)
  ELSE SymbolSet(ns, i, j + 1,
                 IF ns[i].symbols[j] \in Range(acc) THEN acc
                 ELSE Append(acc, ns[i].symbols[j]))

\* scores.get(name) || 0
MassOf(syms, scores, name) ==
  IF \E i \in DOMAIN syms : syms[i] = name
  THEN scores[CHOOSE i \in DOMAIN syms : syms[i] = name]
  ELSE 0

RECURSIVE FromCallers(_, _, _, _)
FromCallers(st, syms, scores, callers) ==
  IF callers = {} THEN 0
  ELSE LET c   == CHOOSE x \in callers : TRUE
           out == Cardinality(st.callGraphMap[c])
       IN (IF out > 0
           THEN (DampingFactor * (MassOf(syms, scores, c) \div out)) \div 100
           ELSE 0)
          + FromCallers(st, syms, scores, callers \ {c})

\* one iteration: the new score of every symbol from the scores before it
RECURSIVE Iterate(_, _, _, _)
Iterate(st, syms, scores, i) ==
  IF i > Len(syms) THEN <<>>
  ELSE << (((100 - DampingFactor) * Mass) \div 100) \div Len(syms)
          + FromCallers(st, syms, scores, st.reverseCallGraph[syms[i]]) >>
       \o Iterate(st, syms, scores, i + 1)

\* the iterations without the share (1 - dampingFactor) / symbols.size
\* (a faulty variant)
RECURSIVE IterateCallersOnly(_, _, _, _)
IterateCallersOnly(st, syms, scores, i) ==
  IF i > Len(syms) THEN <<>>
  ELSE <<FromCallers(st, syms, scores, st.reverseCallGraph[syms[i]])>>
       \o IterateCallersOnly(st, syms, scores, i + 1)
RECURSIVE PageRankCallersOnly(_, _, _, _)
PageRankCallersOnly(st, syms, scores, k) ==
  IF k = 0 \/ Len(scores) = 0 THEN scores
  ELSE PageRankCallersOnly(st, syms, IterateCallersOnly(st, syms, scores, 1),
                           k - 1)

RECURSIVE PageRank(_, _, _, _)
PageRank(st, syms, scores, k) ==
  IF k = 0 \/ Len(scores) = 0 THEN scores
  ELSE PageRank(st, syms, Iterate(st, syms, scores, 1), k - 1)

RECURSIVE MaxOf(_, _)
MaxOf(scores, i) ==
  IF i > Len(scores) THEN 0 ELSE Max(scores[i], MaxOf(scores, i + 1))

\* computeCentrality: an entry for every symbol of the graph, each divided by
\* the largest; the entries of other names stay
ComputeCentrality(st) ==
  LET syms == SymbolSet(st.contextGraph.nodes, 1, 1, <<>>)
  IN IF syms = <<>> THEN st
     ELSE LET start  == [i \in DOMAIN syms |-> Mass \div Len(syms)]
              scores == PageRank(st, syms, start, Iterations)
              top    == MaxOf(scores, 1)
          IN [st EXCEPT !.symbolCentrality =
                [n \in EdgeNames |->
                   IF n \in Range(syms) /\ top > 0
                   THEN (MassOf(syms, scores, n) * 1000) \div top
                   ELSE st.symbolCentrality[n]]]

\* loadContextGraph(graph)
LoadContextGraph(st, g) == ComputeCentrality(BuildGraphStructures(st, g))

\* computeSymbolAffinity
ComputeSymbolAffinity(name, entities) ==
  IF name \in Range(entities) THEN 1000 ELSE 0

\* the members of a Set in the order its iteration yields them (some order)
RECURSIVE SetOrder(_)
SetOrder(S) ==
  IF S = {} THEN <<>>
  ELSE LET x == CHOOSE y \in S : TRUE IN <<x>> \o SetOrder(S \ {x})

\* this.importGraphMap.get(file) || new Set()
ImportsOf(m, file) == IF file \in DOMAIN m THEN m[file] ELSE {}

\* the entries computeMinImportDistance pushes for the imports of file
Pushed(m, file, distance, visited) ==
  LET fresh == SetOrder(ImportsOf(m, file) \ visited)
  IN [k \in DOMAIN fresh |-> [file |-> fresh[k], distance |-> distance + 1]]

\* the loop with queue.pop() in place of queue.shift() (a faulty variant)
RECURSIVE ImportWalkDepthFirst(_, _, _, _)
ImportWalkDepthFirst(m, queue, visited, targets) ==
  IF queue = <<>> THEN MaxDistance
  ELSE LET head == queue[Len(queue)]
           rest == SubSeq(queue, 1, Len(queue) - 1)
       IN IF head.file \in visited
          THEN ImportWalkDepthFirst(m, rest, visited, targets)
          ELSE IF head.file \in targets THEN head.distance
          ELSE ImportWalkDepthFirst(
                 m, rest \o Pushed(m, head.file, head.distance,
                                   visited \cup {head.file}),
                 visited \cup {head.file}, targets)

\* computeMinImportDistance: the while loop over the queue
RECURSIVE ImportWalk(_, _, _, _)
ImportWalk(m, queue, visited, targets) ==
  IF queue = <<>> THEN MaxDistance
  ELSE LET head == Head(queue)
           rest == Tail(queue)
       IN IF head.file \in visited
          THEN ImportWalk(m, rest, visited, targets)
          ELSE IF head.file \in targets THEN head.distance
          ELSE ImportWalk(
                 m, rest \o Pushed(m, head.file, head.distance,
                                   visited \cup {head.file}),
                 visited \cup {head.file}, targets)

\* computeMinImportDistance(filePath, targetFiles)
ComputeMinImportDistance(m, filePath, targetFiles) ==
  IF filePath \in targetFiles THEN 0
  ELSE ImportWalk(m, <<[file |-> filePath, distance |-> 0]>>, {}, targetFiles)

\* computeImportProximity
ComputeImportProximity(st, file, entities) ==
  LET relevant == {st.symbolToFile[e] : e \in Range(entities)} \ {""}
  IN IF relevant = {} THEN 500
     ELSE ExpTable[ComputeMinImportDistance(st.importGraphMap, file, relevant) + 1]

\* computeCallGraphMatch
ComputeCallGraphMatch(st, name, q) ==
  IF q.entities = <<>> THEN 0
  ELSE LET near == st.callGraphMap[name] \cup st.reverseCallGraph[name]
           hits == Cardinality({i \in DOMAIN q.entities : q.entities[i] \in near})
           pats == Cardinality({e \in q.callGraph :
                                  e[1] = name /\ e[2] \in st.callGraphMap[name]})
       IN Min(1000, ((hits + 2 * pats) * 1000) \div Len(q.entities))

\* computeReferenceDensity: min(1, log10(inDegree + outDegree + 1))
ComputeReferenceDensity(st, name) ==
  LET deg == Cardinality(st.reverseCallGraph[name])
             + Cardinality(st.callGraphMap[name])
  IN IF deg + 1 > Len(Log10Table) THEN 1000 ELSE Log10Table[deg + 1]

\* scoreSymbol: the five sub-scores and their weighted sum
ScoreSymbol(st, name, file, q) ==
  LET sa == ComputeSymbolAffinity(name, q.entities)
      ip == ComputeImportProximity(st, file, q.entities)
      cg == ComputeCallGraphMatch(st, name, q)
      rd == ComputeReferenceDensity(st, name)
      ce == st.symbolCentrality[name]
  IN [symbol |-> name, file |-> file,
      score |-> [symbolAffinity |-> sa, importProximity |-> ip,
                 callGraphMatch |-> cg, referenceDensity |-> rd,
                 centrality |-> ce,
                 overall |-> 30 * sa + 15 * ip + 25 * cg + 15 * rd + 15 * ce]]

RECURSIVE ScoreNodes(_, _, _, _)
ScoreNodes(st, q, i, j) ==
  LET ns == st.contextGraph.nodes IN
  IF i > Len(ns) THEN <<>>
  ELSE IF j > Len(ns[i].symbols) THEN ScoreNodes(st, q, i + 1, 1)
  ELSE <<ScoreSymbol(st, ns[i].symbols[j], ns[i].filePath, q)>>
       \o ScoreNodes(st, q, i, j + 1)

\* scoreSymbols(): every symbol of every node, best first
ScoreSymbols(st, q) ==
  IF ~st.loaded THEN <<>>
  ELSE LET all == ScoreNodes(st, q, 1, 1)
       IN StableSortDesc(all, [i \in DOMAIN all |-> all[i].score.overall])

\* new Map(graphScoredSymbols.map(s => [s.symbol, s.score.overall])): the
\* last entry of a name stays
GraphScoreMap(scored) ==
  [n \in {scored[i].symbol : i \in DOMAIN scored} |->
     scored[CHOOSE i \in DOMAIN scored :
              /\ scored[i].symbol = n
              /\ \A j \in DOMAIN scored : scored[j].symbol = n => j <= i
           ].score.overall]

\* faulty variant: a symbol without a graph score is given the score 1.0
CombineScoresDefaultOne(results, graphScores, topK) ==
  LET combined ==
        [i \in DOMAIN results |->
           [results[i] EXCEPT !.scores.hybrid =
              4 * (results[i].scores.hybrid * 1000)
              + 6 * (IF results[i].meta.symbol \in DOMAIN graphScores
                     THEN graphScores[results[i].meta.symbol] ELSE 100000)]]
  IN SubSeq(SortByHybrid(combined), 1, Min(Max(topK, 0), Len(combined)))

\* combineScores(hybridResults, graphScores, topK): 0.4 * hybrid + 0.6 * graph
\* replaces scores.hybrid (in millionths), then sort and slice
CombineScores(results, graphScores, topK) ==
  LET combined ==
        [i \in DOMAIN results |->
           [results[i] EXCEPT !.scores.hybrid =
              4 * (results[i].scores.hybrid * 1000)
              + 6 * (IF results[i].meta.symbol \in DOMAIN graphScores
                     THEN graphScores[results[i].meta.symbol] ELSE 0)]]
  IN SubSeq(SortByHybrid(combined), 1, Min(Max(topK, 0), Len(combined)))

\* ------------------------------------------------- RerankerConfig (pure)
\* A weight counts two-hundredths.  The two weights are kept as numerators
\* over one denominator, in lowest terms; denominator 0 stands for NaN, what
\* dividing 0 by the weight sum 0 leaves in both weights.

WeightUnit == 200
\* a weight that a Partial<RerankerConfig> does not supply
Unset == 0 - 1
\* the weights a caller supplies: 0, 0.4, 0.605 and 0.8
WeightChoices == {0, 80, 121, 160}
Supplied == WeightChoices \cup {Unset}

RECURSIVE Gcd(_, _)
Gcd(a, b) == IF b = 0 THEN a ELSE Gcd(b, a % b)

Weights(b, s, d) ==
  LET g == Gcd(Gcd(b, s), d)
  IN [bm25Weight |-> b \div g, semanticWeight |-> s \div g, den |-> d \div g]

NaNWeights == [bm25Weight |-> 0, semanticWeight |-> 0, den |-> 0]

\* bm25Weight: 0.4, semanticWeight: 0.6
DefaultWeights == Weights((2 * WeightUnit) \div 5, (3 * WeightUnit) \div 5, WeightUnit)

\* { ...this.config, ...config }: the merged weights over the denominator
\* WeightUnit * c.den; nan when a weight that stays is NaN
MergeConfig(c, b, s) ==
  LET d0 == IF c.den = 0 THEN 1 ELSE c.den
  IN [bm25Weight |-> IF b # Unset THEN b * d0 ELSE c.bm25Weight * WeightUnit,
      semanticWeight |-> IF s # Unset THEN s * d0
                         ELSE c.semanticWeight * WeightUnit,
      den |-> WeightUnit * d0,
      nan |-> c.den = 0 /\ (b = Unset \/ s = Unset)]

\* this.config.bm25Weight /= weightSum; this.config.semanticWeight /= weightSum
DivideBySum(m) ==
  IF m.nan \/ m.bm25Weight + m.semanticWeight = 0 THEN NaNWeights
  ELSE Weights(m.bm25Weight, m.semanticWeight, m.bm25Weight + m.semanticWeight)

\* HybridReranker.updateConfig(config)
UpdateConfig(c, b, s) ==
  IF b = Unset /\ s = Unset THEN c ELSE DivideBySum(MergeConfig(c, b, s))

\* new HybridReranker(bm25Retriever, semanticRetriever, config): the weights
\* are divided by their sum when it is further than 0.01 from 1
NewHybridReranker(b, s) ==
  LET m    == MergeConfig(DefaultWeights, b, s)
      diff == m.bm25Weight + m.semanticWeight - m.den
      abs  == IF diff < 0 THEN 0 - diff ELSE diff
  IN IF 100 * abs > m.den THEN DivideBySum(m)
     ELSE Weights(m.bm25Weight, m.semanticWeight, m.den)

ConfigCall(op, b, s, c) ==
  [op |-> op, bm25Weight |-> b, semanticWeight |-> s, before |-> c]

\* ------------------------------------------------------------ actions

\* graphScoreMap when scoreSymbols() returned nothing
NoGraphScores == [n \in {} |-> 0]

NoQuery == [raw |-> <<>>, cos |-> <<>>, maxScore |-> 0, topK |-> 0,
           candidateIds |-> <<>>, graphScores |-> NoGraphScores]
NoError == [thrown |-> FALSE, raised |-> FALSE]

\* new BM25LexicalRetriever(), new SemanticRetriever(): nothing indexed
RankInit ==
  /\ bm25Documents = <<>>
  /\ semDocuments = <<>>
  /\ asked = 0
  /\ rankOp = "none"
  /\ rankIn = NoQuery
  /\ hybridResults = <<>>
  /\ rankErr = NoError
  /\ finalResults = <<>>

Slots == 1..MaxOps
Idle == "idle"
UpdatePcs == {"u_detect", "u_apply", "u_load", "u_embed"}
IndexPcs == {"i_build", "i_load", "i_embed"}
QueryPcs == {"q_embed"}

\* activate: nothing indexed, no timer, no operation in flight
PipeInit ==
  /\ pendingChanges = {}
  /\ timers = {}
  /\ updateTimeout = {}
  /\ copilotInitialized = FALSE
  /\ documents = "none"
  /\ ops = [i \in Slots |-> Idle]
  /\ lastRead = "none"
  /\ quiet = DebounceDelay
  /\ fired = 0
  /\ burst = [n |-> 0, late |-> FALSE]

\* new HybridReranker(bm25Retriever, semanticRetriever) in the orchestrator's
\* constructor: the default weights
ConfigInit ==
  /\ config = DefaultWeights
  /\ configCall = ConfigCall("new", Unset, Unset, DefaultWeights)
  /\ configUpdates = 0

\* new BM25LexicalRetriever(): nothing indexed
LexInit ==
  /\ lexIndex = NoLexIndex
  /\ lexCall = LexCall("new", <<>>, 0)
  /\ lexResults = <<>>

\* new GraphAwareRelevanceScorer() in the orchestrator's constructor
NoGraphQuery ==
  [asked |-> FALSE, queryGraph |-> [entities |-> <<>>, callGraph |-> {}],
   hybridResults |-> <<>>]
GraphInit ==
  /\ graphStore = NoStore
  /\ graphLoads = 0
  /\ graphQuery = NoGraphQuery
  /\ graphScored = <<>>
  /\ graphFinal = <<>>

\* new QueryIntentGraphBuilder(): no query projected yet
NoIntentCall == [asked |-> FALSE, tokens |-> <<>>]
NoIntentGraph == [intentType |-> "", nodes |-> <<>>, callGraph |-> <<>>]
IntentInit ==
  /\ intentCall = NoIntentCall
  /\ intentGraph = NoIntentGraph

\* one file on disk, nothing indexed
RaceInit ==
  /\ raceDisk = 1
  /\ raceNode = Absent
  /\ raceHash = Absent
  /\ racePc = "idle"
  /\ raceTmp = Absent
  /\ raceReport = "none"

\* new CopilotIntelligenceOrchestrator(), nothing saved yet; version 0 of an
\* index stands for "none"
NoOrch == [contextGraph |-> 0, searchIndex |-> 0, lexical |-> 0,
           vector |-> [ver |-> 0, complete |-> TRUE], graph |-> 0,
           isInitialized |-> FALSE]
OrchIdle == [at |-> "idle", caller |-> "none"]
OrchInit ==
  /\ artifacts = 0
  /\ orch = NoOrch
  /\ orchPc = OrchIdle
  /\ orchHost = [copilotInitialized |-> FALSE]

\* no symbol tokenized yet
NoSymbol == [indexed |-> FALSE, symbol |-> <<>>, file |-> <<>>]
TokInit ==
  /\ tokSymbol = NoSymbol
  /\ tokTokens = <<>>

\* no import distance asked for yet
ImportInit ==
  /\ importCall = [asked |-> FALSE, map |-> <<>>, file |-> "", targets |-> {}]
  /\ importResult = [distance |-> 0, proximity |-> 0]

\* a fresh scorer
CentralInit ==
  /\ centralCall = [asked |-> FALSE, graph |-> NoGraph]
  /\ centralStore = NoStore

MoreInit ==
  IntentInit /\ RaceInit /\ OrchInit /\ TokInit /\ ImportInit /\ CentralInit

ExtInit == ConfigInit /\ LexInit /\ GraphInit /\ MoreInit

Init ==
  /\ ExtInit
  /\ disk \in [Paths -> {Absent} \cup Digests]
  /\ fileHashes = [p \in Paths |-> Absent]
  /\ hasIndex = FALSE
  /\ nodes = <<>>
  /\ callGraph = <<>>
  /\ updates = 0
  /\ last = Call("env")
  /\ removal = [p \in Paths |-> "none"]
  /\ PipeInit
  /\ RankInit

\* the user or a tool writes file p (creating or changing it)
EnvWrite(p, d) ==
  /\ UNCHANGED <<pipeVars, rankVars, extVars>>
  /\ disk[p] # d
  /\ disk' = [disk EXCEPT ![p] = d]
  /\ removal' = [removal EXCEPT ![p] = "none"]
  /\ last' = Call("env")
  /\ UNCHANGED <<fileHashes, hasIndex, nodes, callGraph, updates>>

\* file p is removed from disk
EnvDelete(p) ==
  /\ UNCHANGED <<pipeVars, rankVars, extVars>>
  /\ disk[p] # Absent
  /\ disk' = [disk EXCEPT ![p] = Absent]
  /\ removal' = [removal EXCEPT ![p] =
                   IF fileHashes[p] # Absent THEN "removed" ELSE "none"]
  /\ last' = Call("env")
  /\ UNCHANGED <<fileHashes, hasIndex, nodes, callGraph, updates>>

\* generateIndexWithProgress: Indexer.generateIndex over the files on disk,
\* then state.contextGraph / state.incrementalUpdater are replaced.
\* (A cancelled run throws and leaves the state as it was.)
GenerateIndex ==
  /\ UNCHANGED <<pipeVars, rankVars, extVars>>
  /\ LET files == SetToSeq({p \in Paths : disk[p] # Absent}) IN
     \E out \in OutChoices(files, disk) :
       /\ \A p \in Paths : out[p] # "skip"
       /\ LET r == IndexLoop(files, 1, out, disk, <<>>,
                             [p \in Paths |-> Absent], <<>>)
          IN /\ nodes' = r.nodes
             /\ fileHashes' = r.hashes
             /\ callGraph' = BuildCompleteCallGraph(r.nodes, <<>>)
             /\ \E big \in SUBSET {p \in Range(files) :
                                    out[p] = "pre" /\ disk[p] # Absent} :
                  last' = [Call("index") EXCEPT
                             !.scan = files, !.out = out, !.errors = r.errors,
                             !.big = big,
                             !.report =
                               IndexReport(files, 1, out, big,
                                 [NoReport EXCEPT !.totalFiles = Len(files)])]
       /\ hasIndex' = TRUE
       /\ updates' = 0
       /\ removal' = [p \in Paths |-> "none"]
  /\ UNCHANGED disk

\* performIncrementalUpdate: detectChangedFiles on the scanned list P (the
\* scan may be stale), and, unless nothing changed, updateGraph followed by
\* state.contextGraph = updateResult.updatedGraph.  What happens to the files
\* while the run awaits shows as the per-file outcomes.
IncrementalUpdate(P, U) ==
  /\ UNCHANGED <<pipeVars, rankVars, extVars>>
  /\ hasIndex
  /\ U \subseteq {p \in Range(P) : disk[p] # Absent}
  /\ LET res == DetectChangedFiles(P, fileHashes, disk, U) IN
       /\ removal' = NoteDetect(removal, res)
       /\ IF TotalChanges(res) = 0
          THEN /\ last' = [Call("detect") EXCEPT !.scan = P, !.unread = U,
                                                 !.result = res]
               /\ UNCHANGED <<fileHashes, nodes, callGraph, updates>>
          ELSE /\ updates < MaxUpdates
               /\ updates' = updates + 1
               /\ \E out \in OutChoices(res.modified \o res.added, disk) :
                    LET r == UpdateGraph(nodes, callGraph, fileHashes, res, out, disk)
                    IN /\ nodes' = r.nodes
                       /\ fileHashes' = r.hashes
                       /\ callGraph' = r.callGraph
                       /\ last' = [Call("update") EXCEPT
                                     !.scan = P, !.unread = U, !.result = res,
                                     !.out = out, !.errors = r.errors]
  /\ UNCHANGED <<disk, hasIndex>>

\* watcher.onDidDelete(uri) for a file that has left the disk:
\* incrementalUpdater.removeFile when an index is loaded
OnDidDelete(p) ==
  /\ UNCHANGED <<pipeVars, rankVars, extVars>>
  /\ disk[p] = Absent
  /\ hasIndex
  /\ fileHashes[p] # Absent
  /\ fileHashes' = [fileHashes EXCEPT ![p] = Absent]
  /\ last' = [Call("onDidDelete") EXCEPT !.scan = <<p>>]
  /\ UNCHANGED <<disk, hasIndex, nodes, callGraph, updates, removal>>

\* generateIndexWithProgress when the user cancels while step k of
\* generateIndex is in flight: step 0 is the scan, step i the processing of
\* files[i], the step after the last file is buildCompleteCallGraph.  The
\* token is read before every pattern of the scan, before every batch, before
\* every file and once before the call graph; 'cancelled' errors are caught
\* by generateIndexWithProgress, which then leaves the state as it was.
GenerateIndexCancelled(k) ==
  /\ UNCHANGED <<pipeVars, rankVars, extVars>>
  /\ LET files == SetToSeq({p \in Paths : disk[p] # Absent}) IN
     /\ k \in 0..(Len(files) + 1)
     /\ IF k <= Len(files)
        THEN \* the next read of the token throws; what was built is dropped
             /\ last' = [Call("index") EXCEPT
                           !.scan = files,
                           !.cancel = [requested |-> TRUE, step |-> k,
                                       raised |-> TRUE]]
             /\ UNCHANGED <<nodes, fileHashes, callGraph, hasIndex,
                            updates, removal>>
        ELSE \* no read of the token is left: the run returns and is stored
             \E out \in OutChoices(files, disk) :
               /\ \A p \in Paths : out[p] # "skip"
               /\ LET r == IndexLoop(files, 1, out, disk, <<>>,
                                     [p \in Paths |-> Absent], <<>>)
                  IN /\ nodes' = r.nodes
                     /\ fileHashes' = r.hashes
                     /\ callGraph' = BuildCompleteCallGraph(r.nodes, <<>>)
                     /\ last' = [Call("index") EXCEPT
                                   !.scan = files, !.out = out,
                                   !.errors = r.errors,
                                   !.report =
                                     IndexReport(files, 1, out, {},
                                       [NoReport EXCEPT
                                          !.totalFiles = Len(files)]),
                                   !.cancel = [requested |-> TRUE, step |-> k,
                                               raised |-> FALSE]]
               /\ hasIndex' = TRUE
               /\ updates' = 0
               /\ removal' = [p \in Paths |-> "none"]
  /\ UNCHANGED disk

Next ==
  \/ \E p \in Paths, d \in Digests : EnvWrite(p, d)
  \/ \E p \in Paths : EnvDelete(p)
  \/ GenerateIndex
  \/ \E k \in 0..(NPaths + 1) : GenerateIndexCancelled(k)
  \/ \E P \in ScanLists, U \in SUBSET Paths : IncrementalUpdate(P, U)
  \/ \E p \in Paths : OnDidDelete(p)

Spec == Init /\ [][Next]_vars

\* ------------------------------------------- file watcher and pipeline
\* The second specification follows the watcher's debounce timer and the
\* positions of the asynchronous operations between their awaits.  The
\* content of the corpus is not followed here.  Time advances in whole units;
\* a timer runs its callback at the instant its delay has passed.

FreeSlots == {i \in Slots : ops[i] = Idle}
InFlight == {i \in Slots : ops[i] # Idle}

\* an operation starts in the first free slot
StartOp(pc) ==
  /\ FreeSlots # {}
  /\ LET i == CHOOSE k \in FreeSlots : \A j \in FreeSlots : k <= j
     IN ops' = [ops EXCEPT ![i] = pc]

\* scheduleIncrementalUpdate without the clearTimeout of the previous timer
ScheduleNoClear(ts, handle) == ts \cup {DebounceDelay}

\* scheduleIncrementalUpdate: the live timers after clearTimeout(updateTimeout)
\* and setTimeout(callback, 2000)
ScheduleIncrementalUpdate(ts, handle) == (ts \ handle) \cup {DebounceDelay}

\* watcher.onDidChange / onDidCreate / onDidDelete(uri) with an index loaded
\* (without one the handlers do nothing)
Notify(p, kind) ==
  /\ UNCHANGED <<rankVars, extVars>>
  /\ hasIndex
  /\ 0 \notin timers
  /\ fileHashes' = IF kind = "delete" THEN [fileHashes EXCEPT ![p] = Absent]
                   ELSE fileHashes
  /\ pendingChanges' = pendingChanges \cup {p}
  /\ timers' = ScheduleIncrementalUpdate(timers, updateTimeout)
  /\ updateTimeout' = {DebounceDelay}
  /\ burst' = IF burst.n > 0 /\ quiet < DebounceDelay
              THEN [n |-> Min(burst.n + 1, MaxBurst),
                    late |-> burst.late \/ quiet > 0]
              ELSE [n |-> 1, late |-> FALSE]
  /\ quiet' = 0
  /\ fired' = 0
  /\ UNCHANGED <<disk, hasIndex, nodes, callGraph, updates, last, removal>>
  /\ UNCHANGED <<copilotInitialized, documents, ops, lastRead>>

\* one time unit passes; a timer that is due runs first
Tick ==
  /\ UNCHANGED <<rankVars, extVars>>
  /\ 0 \notin timers
  /\ timers' = {t - 1 : t \in timers}
  /\ updateTimeout' = {t - 1 : t \in updateTimeout}
  /\ quiet' = Min(quiet + 1, DebounceDelay)
  /\ UNCHANGED updVars
  /\ UNCHANGED <<pendingChanges, copilotInitialized, documents, ops, lastRead,
                 fired, burst>>

\* the setTimeout callback: with pending changes and an index loaded it
\* clears pendingChanges and calls performIncrementalUpdate
TimerFire ==
  /\ UNCHANGED <<rankVars, extVars>>
  /\ 0 \in timers
  /\ timers' = timers \ {0}
  /\ updateTimeout' = updateTimeout \ {0}
  /\ IF pendingChanges # {} /\ hasIndex
     THEN /\ pendingChanges' = {}
          /\ StartOp("u_detect")
          /\ fired' = fired + 1
     ELSE UNCHANGED <<pendingChanges, ops, fired>>
  /\ UNCHANGED updVars
  /\ UNCHANGED <<copilotInitialized, documents, lastRead, quiet, burst>>

\* command logicGraph.generateContextJSON
StartIndex ==
  /\ UNCHANGED <<rankVars, extVars>>
  /\ StartOp("i_build")
  /\ UNCHANGED updVars
  /\ UNCHANGED <<pendingChanges, timers, updateTimeout, copilotInitialized,
                 documents, lastRead, quiet, fired, burst>>

\* command logicGraph.incrementalUpdate
StartUpdate ==
  /\ UNCHANGED <<rankVars, extVars>>
  /\ hasIndex
  /\ StartOp("u_detect")
  /\ UNCHANGED updVars
  /\ UNCHANGED <<pendingChanges, timers, updateTimeout, copilotInitialized,
                 documents, lastRead, quiet, fired, burst>>

\* command logicGraph.queryCodebase, on the orchestrator's path
StartQuery ==
  /\ UNCHANGED <<rankVars, extVars>>
  /\ copilotInitialized
  /\ StartOp("q_embed")
  /\ UNCHANGED updVars
  /\ UNCHANGED <<pendingChanges, timers, updateTimeout, copilotInitialized,
                 documents, lastRead, quiet, fired, burst>>

OthersEmbedding(i) == \E j \in Slots \ {i} : ops[j] \in {"i_embed", "u_embed"}

\* the operation in slot i resumes after its await and runs to its next one
\*   i_build  generateIndex resolved: state.contextGraph, incrementalUpdater set
\*   *_load   orchestrator.initialize: loadIndices resolved, then
\*            SemanticRetriever.indexSearchIndex clears documents and awaits
\*            the embeddings
\*   *_embed  the embeddings resolved (ok) or threw
\*   u_detect detectChangedFiles resolved: changes or none
\*   u_apply  updateGraph and saveIndicesToDisk resolved
\*   q_embed  SemanticRetriever.search: embed(query) resolved, documents read
Resume(i, ok) ==
  /\ UNCHANGED <<rankVars, extVars>>
  /\ ops[i] # Idle
  /\ CASE ops[i] = "i_build" ->
            /\ ops' = [ops EXCEPT ![i] = IF ok THEN "i_load" ELSE Idle]
            /\ hasIndex' = (hasIndex \/ ok)
            /\ UNCHANGED <<copilotInitialized, documents, lastRead>>
       [] ops[i] \in {"i_load", "u_load"} ->
            /\ ops' = [ops EXCEPT ![i] = IF ops[i] = "i_load" THEN "i_embed"
                                         ELSE "u_embed"]
            /\ documents' = "cleared"
            /\ UNCHANGED <<hasIndex, copilotInitialized, lastRead>>
       [] ops[i] = "i_embed" ->
            /\ ops' = [ops EXCEPT ![i] = Idle]
            /\ copilotInitialized' = ok
            /\ documents' = IF ok /\ ~OthersEmbedding(i) THEN "built"
                            ELSE "cleared"
            /\ UNCHANGED <<hasIndex, lastRead>>
       [] ops[i] = "u_embed" ->
            /\ ops' = [ops EXCEPT ![i] = Idle]
            /\ documents' = IF ok /\ ~OthersEmbedding(i) THEN "built"
                            ELSE "cleared"
            /\ UNCHANGED <<hasIndex, copilotInitialized, lastRead>>
       [] ops[i] = "u_detect" ->
            /\ ops' = [ops EXCEPT ![i] = IF ok THEN "u_apply" ELSE Idle]
            /\ UNCHANGED <<hasIndex, copilotInitialized, documents, lastRead>>
       [] ops[i] = "u_apply" ->
            /\ ops' = [ops EXCEPT ![i] = IF ok /\ copilotInitialized
                                         THEN "u_load" ELSE Idle]
            /\ UNCHANGED <<hasIndex, copilotInitialized, documents, lastRead>>
       [] ops[i] = "q_embed" ->
            /\ ops' = [ops EXCEPT ![i] = Idle]
            /\ lastRead' = IF ok THEN documents ELSE lastRead
            /\ UNCHANGED <<hasIndex, copilotInitialized, documents>>
  /\ UNCHANGED <<disk, fileHashes, nodes, callGraph, updates, last, removal>>
  /\ UNCHANGED <<pendingChanges, timers, updateTimeout, quiet, fired, burst>>

PipeNext ==
  \/ \E p \in Paths, kind \in {"change", "create", "delete"} : Notify(p, kind)
  \/ Tick
  \/ TimerFire
  \/ StartIndex
  \/ StartUpdate
  \/ StartQuery
  \/ \E i \in Slots, ok \in BOOLEAN : Resume(i, ok)

\* the file system is idle in this specification
InitPipe ==
  /\ ExtInit
  /\ disk = [p \in Paths |-> Absent]
  /\ fileHashes = [p \in Paths |-> Absent]
  /\ hasIndex = FALSE
  /\ nodes = <<>>
  /\ callGraph = <<>>
  /\ updates = 0
  /\ last = Call("env")
  /\ removal = [p \in Paths |-> "none"]
  /\ PipeInit
  /\ RankInit

SpecPipe == InitPipe /\ [][PipeNext]_vars

\* ------------------------------------------------- retrieval and ranking
\* The third specification indexes a search index in both retrievers and
\* runs HybridReranker.search and HybridReranker.rerank on it.  A query is
\* what it scores against each document: its raw BM25 score (never negative:
\* every idf is the logarithm of a number above 1), the cosine of its
\* embedding with the document's, and the corpus bound getMaxScore().

\* the cosines a query is given: -1.0, the threshold 0.3 itself and a value
\* between the threshold and 1.0 (at 1.0 the map c -> (c + 1) / 2 is fixed)
CosValues == {0 - One, RelevanceThreshold, (RelevanceThreshold + One) \div 2}

Queries ==
  {[raw |-> r, cos |-> c, maxScore |-> m, topK |-> k, candidateIds |-> <<>>,
    graphScores |-> NoGraphScores] :
     r \in [DOMAIN bm25Documents -> 0..MaxRaw],
     c \in [DOMAIN semDocuments -> CosValues],
     m \in 0..MaxRaw,
     k \in 0..MaxDocs}

\* the queries that meet one stored vector of another length (loadEmbeddings
\* takes the vectors of a file as they are)
FaultyQueries ==
  {[q EXCEPT !.cos[j] = DimensionError] :
     q \in {x \in Queries :
              \A i \in DOMAIN semDocuments : x.cos[i] = RelevanceThreshold},
     j \in DOMAIN semDocuments}

\* graphScoreMap: nothing (no graph loaded), or an overall score, in
\* hundred-thousandths, for the symbol names of the graph
GraphScoreChoices ==
  {NoGraphScores, [n \in {"s", "t"} |-> IF n = "s" THEN 20000 ELSE 60000]}

\* the ids a caller can name: those of either index
KnownIds ==
  {bm25Documents[i].id : i \in DOMAIN bm25Documents}
  \cup {semDocuments[i].id : i \in DOMAIN semDocuments}

CandidateLists ==
  {l \in UNION {[1..n -> KnownIds] : n \in 1..MaxDocs} :
     \A i, j \in DOMAIN l : i # j => l[i] # l[j]}

\* CopilotIntelligenceOrchestrator.initialize: both retrievers index the
\* same search index
IndexSearchIndex(c) ==
  /\ bm25Documents' = Bm25Index(c)
  /\ semDocuments' = SemanticIndex(c)
  /\ asked' = 0
  /\ rankOp' = "index"
  /\ rankIn' = NoQuery
  /\ hybridResults' = <<>>
  /\ rankErr' = NoError
  /\ finalResults' = <<>>
  /\ UNCHANGED <<updVars, pipeVars, extVars>>

\* HybridReranker.search(query, topK)
Search ==
  /\ rankOp # "none"
  /\ asked < MaxQueries
  /\ asked' = asked + 1
  /\ rankOp' = "search"
  /\ \E q \in Queries \cup FaultyQueries :
       /\ rankIn' = q
       /\ hybridResults' = HybridSearch(bm25Documents, semDocuments, q, q.topK)
       /\ rankErr' = [thrown |-> SemanticThrows(semDocuments, q.cos),
                      raised |-> FALSE]
  /\ finalResults' = <<>>
  /\ UNCHANGED <<bm25Documents, semDocuments, updVars, pipeVars, extVars>>

\* CopilotIntelligenceOrchestrator.query(queryText, topK): search with twice
\* topK, then combineScores with the graph scores
Query ==
  /\ rankOp # "none"
  /\ asked < MaxQueries
  /\ asked' = asked + 1
  /\ rankOp' = "query"
  /\ \E q \in Queries \cup FaultyQueries, gs \in GraphScoreChoices :
       /\ rankIn' = [q EXCEPT !.graphScores = gs]
       /\ hybridResults' =
            HybridSearch(bm25Documents, semDocuments, q, q.topK * 2)
       /\ rankErr' = [thrown |-> SemanticThrows(semDocuments, q.cos),
                      raised |-> FALSE]
       /\ finalResults' = CombineScores(hybridResults', gs, q.topK)
  /\ UNCHANGED <<bm25Documents, semDocuments, updVars, pipeVars, extVars>>

\* HybridReranker.rerank(query, candidateIds, topK)
Rerank ==
  /\ rankOp # "none"
  /\ asked < MaxQueries
  /\ asked' = asked + 1
  /\ rankOp' = "rerank"
  /\ \E q \in Queries \cup FaultyQueries, ids \in CandidateLists :
       /\ rankIn' = [q EXCEPT !.candidateIds = ids]
       /\ rankErr' = [thrown |-> RerankThrows(semDocuments, q.cos, ids),
                      raised |-> RerankThrows(semDocuments, q.cos, ids)]
       /\ hybridResults' =
            IF RerankThrows(semDocuments, q.cos, ids) THEN <<>>
            ELSE HybridRerank(bm25Documents, semDocuments, q, ids, q.topK)
  /\ finalResults' = <<>>
  /\ UNCHANGED <<bm25Documents, semDocuments, updVars, pipeVars, extVars>>

RankNext ==
  \/ \E c \in Corpora : IndexSearchIndex(c)
  \/ Search
  \/ Query
  \/ Rerank

InitRank ==
  /\ ExtInit
  /\ disk = [p \in Paths |-> Absent]
  /\ fileHashes = [p \in Paths |-> Absent]
  /\ hasIndex = FALSE
  /\ nodes = <<>>
  /\ callGraph = <<>>
  /\ updates = 0
  /\ last = Call("env")
  /\ removal = [p \in Paths |-> "none"]
  /\ PipeInit
  /\ RankInit

SpecRank == InitRank /\ [][RankNext]_vars

\* ------------------------------------------------- reranker configuration
\* The fourth specification constructs a HybridReranker with any supplied
\* weights and calls updateConfig on it.

\* the file system, the pipeline and the retrievers at their initial values
OthersIdle ==
  /\ disk = [p \in Paths |-> Absent]
  /\ fileHashes = [p \in Paths |-> Absent]
  /\ hasIndex = FALSE
  /\ nodes = <<>>
  /\ callGraph = <<>>
  /\ updates = 0
  /\ last = Call("env")
  /\ removal = [p \in Paths |-> "none"]
  /\ PipeInit
  /\ RankInit

\* HybridReranker.updateConfig(config)
UpdateConfigCall(b, s) ==
  /\ configUpdates < MaxConfigUpdates
  /\ configUpdates' = configUpdates + 1
  /\ config' = UpdateConfig(config, b, s)
  /\ configCall' = ConfigCall("update", b, s, config)
  /\ UNCHANGED <<updVars, pipeVars, rankVars, lexVars, graphVars, moreVars>>

ConfigNext == \E b, s \in Supplied : UpdateConfigCall(b, s)

InitConfig ==
  /\ OthersIdle
  /\ LexInit
  /\ GraphInit
  /\ MoreInit
  /\ configUpdates = 0
  /\ \E b, s \in Supplied :
       /\ config = NewHybridReranker(b, s)
       /\ configCall = ConfigCall("new", b, s, DefaultWeights)

SpecConfig == InitConfig /\ [][ConfigNext]_vars

\* ------------------------------------------------------ lexical retrieval
\* The fifth specification indexes corpora of tokenized documents in a
\* BM25LexicalRetriever and searches them.

LexCorpora ==
  UNION {[1..n -> TokenLists(MaxTokens) \ {<<>>}] : n \in 0..MaxLexDocs}

\* BM25LexicalRetriever.indexSearchIndex(searchIndex)
LexIndexSearchIndex(docs) ==
  /\ lexIndex' = BuildLexIndex(docs)
  /\ lexCall' = LexCall("index", <<>>, 0)
  /\ lexResults' = <<>>
  /\ UNCHANGED <<updVars, pipeVars, rankVars, configVars, graphVars, moreVars>>

\* BM25LexicalRetriever.search(query, topK)
LexSearchCall(q, topK) ==
  /\ lexCall' = LexCall("search", q, topK)
  /\ lexResults' = LexSearch(lexIndex, q, topK)
  /\ UNCHANGED <<lexIndex, updVars, pipeVars, rankVars, configVars, graphVars,
                 moreVars>>

LexNext ==
  \/ \E docs \in LexCorpora : LexIndexSearchIndex(docs)
  \/ \E q \in TokenLists(MaxTokens), topK \in 0..MaxLexDocs : LexSearchCall(q, topK)

InitLex == OthersIdle /\ ConfigInit /\ GraphInit /\ MoreInit /\ LexInit

SpecLex == InitLex /\ [][LexNext]_vars

\* ----------------------------------------------------------- graph scoring
\* The sixth specification loads corpus graphs into the orchestrator's one
\* GraphAwareRelevanceScorer, one after another as initialize() does after
\* every indexing run, and runs the graph steps of query() on it.

\* The corpus graphs: file a declares f and, with them, the ten callers of f;
\* file b, if indexed, declares f or g; a may import b; f and g may call
\* each other.  Call edges name symbols, as the syntax-tree pass writes them.
GraphChoices ==
  {[nodes |->
      <<[filePath |-> "a",
         symbols |-> <<"f">> \o (IF crowd THEN CallerSeq ELSE <<>>),
         imports |-> IF imp THEN {"b"} ELSE {}]>>
      \o (IF inB = "" THEN <<>>
          ELSE <<[filePath |-> "b", symbols |-> <<inB>>, imports |-> {}]>>),
    callGraph |->
      es \cup (IF crowd THEN {<<c, "f">> : c \in CallerNames} ELSE {})] :
   crowd \in BOOLEAN, imp \in BOOLEAN, inB \in {"", "f", "g"},
   es \in SUBSET {<<"f", "g">>, <<"g", "f">>}}

\* The query graphs: the entities of the query and the calls between them
QueryGraphs ==
  {[entities |-> en, callGraph |-> cg] :
   en \in {<<>>, <<"f">>, <<"g">>}, cg \in {{}, {<<"f", "g">>}}}

\* A hybrid result for symbol name of file, with hybrid score h (hundredths)
HybridEntry(file, name, h) ==
  LET m == [file |-> file, line |-> "1", symbol |-> name]
  IN [documentId |-> Bm25Id(m), meta |-> m,
      scores |-> [bm25 |-> 0, semantic |-> 0, hybrid |-> h,
                  rrf |-> [num |-> 0, den |-> 1]],
      rank |-> 0]

\* What hybridReranker.search hands over: f of a and a symbol of b, in
\* either order, with equal or with different hybrid scores
HybridChoices ==
  {WithRanks(IF first
             THEN <<HybridEntry("a", "f", 50), HybridEntry("b", inB, h)>>
             ELSE <<HybridEntry("b", inB, 50), HybridEntry("a", "f", h)>>) :
   first \in BOOLEAN, inB \in {"f", "g"}, h \in {30, 50}}

\* queryCodebase: queryWithFallback(query, 20)
QueryTopK == 20

\* initialize(): graphScorer.loadContextGraph(contextGraph).  A query leaves
\* the scorer's store as it was, so the loads are followed from the states
\* before a query only.
LoadGraph(g) ==
  /\ graphLoads < MaxLoads
  /\ ~graphQuery.asked
  /\ graphLoads' = graphLoads + 1
  /\ graphStore' = LoadContextGraph(graphStore, g)
  /\ graphQuery' = NoGraphQuery
  /\ graphScored' = <<>>
  /\ graphFinal' = <<>>
  /\ UNCHANGED <<updVars, pipeVars, rankVars, configVars, lexVars, moreVars>>

\* query(): loadQueryGraph, scoreSymbols, graphScoreMap, combineScores.  What
\* a query returns depends on the store and on its inputs only, so one query
\* is followed from each store.
GraphQuery(q, found) ==
  /\ ~graphQuery.asked
  /\ graphQuery' = [asked |-> TRUE, queryGraph |-> q,
                    hybridResults |-> found]
  /\ graphScored' = ScoreSymbols(graphStore, q)
  /\ graphFinal' = CombineScores(found, GraphScoreMap(graphScored'), QueryTopK)
  /\ UNCHANGED <<graphStore, graphLoads,
                 updVars, pipeVars, rankVars, configVars, lexVars, moreVars>>

GraphNext ==
  \/ \E g \in GraphChoices : LoadGraph(g)
  \/ \E q \in QueryGraphs, h \in HybridChoices : GraphQuery(q, h)

InitGraph == OthersIdle /\ ConfigInit /\ LexInit /\ MoreInit /\ GraphInit

SpecGraph == InitGraph /\ [][GraphNext]_vars

\* --------------------------------------------------------------- SpecIntent
\* The seventh specification projects tagged queries with
\* QueryIntentGraphBuilder.buildQueryIntentGraph.  The tokens are what
\* WordTokenizer made of the lower-cased query; the tag of each is what the
\* part-of-speech tagger said of it.

MaxWords == 3
Words == {"find", "calls", "user", "class", "42"}
Tags == {"NN", "VB", "JJ"}
TaggedQueries == UNION {[1..n -> [word : Words, tag : Tags]] : n \in 0..MaxWords}

codeActions == {"find", "show", "explain", "get", "list", "describe", "how",
                "where", "what", "why"}
codeRelations == {"calls", "uses", "implements", "extends", "imports",
                  "depends", "references"}
codeEntities == {"function", "class", "method", "variable", "type",
                 "interface", "component", "module"}

\* isIdentifier(token) on a lower-cased token: the token starts with a letter
\* or an underscore; of the words above all but the number do
IsIdentifier(w) == w \in Words \ {"42"}

\* extractPrimaryAction(tokens, posTags)
RECURSIVE ExtractPrimaryAction(_, _)
ExtractPrimaryAction(toks, i) ==
  IF i > Len(toks) THEN "find"
  ELSE IF toks[i].word \in codeActions \/ toks[i].tag = "VB"
       THEN toks[i].word
       ELSE ExtractPrimaryAction(toks, i + 1)

\* [...new Set(entities)]: the first occurrence of each, in order
RECURSIVE Deduplicate(_, _, _)
Deduplicate(s, i, acc) ==
  IF i > Len(s) THEN acc
  ELSE Deduplicate(s, i + 1,
                   IF s[i] \in Range(acc) THEN acc ELSE Append(acc, s[i]))

RECURSIVE RawEntities(_, _)
RawEntities(toks, i) ==
  IF i > Len(toks) THEN <<>>
  ELSE LET t == toks[i] IN
       (IF t.tag = "NN" \/ t.word \in codeEntities THEN <<t.word>> ELSE <<>>)
       \o (IF IsIdentifier(t.word) THEN <<t.word>> ELSE <<>>)
       \o RawEntities(toks, i + 1)

ExtractEntitiesRaw(toks) == RawEntities(toks, 1)

\* extractEntities(tokens, posTags)
ExtractEntities(toks) == Deduplicate(RawEntities(toks, 1), 1, <<>>)

\* extractRelationship(tokens): "" stands for undefined
RECURSIVE ExtractRelationship(_, _)
ExtractRelationship(toks, i) ==
  IF i > Len(toks) THEN ""
  ELSE IF toks[i].word \in codeRelations THEN toks[i].word
       ELSE ExtractRelationship(toks, i + 1)

\* extractModifiers(tokens, posTags)
ExtractModifiers(toks) ==
  LET adj == SelectSeq(toks, LAMBDA t : t.tag = "JJ")
  IN [k \in DOMAIN adj |-> adj[k].word]

\* analyzeIntent(query)
AnalyzeIntent(toks) ==
  [primaryAction |-> ExtractPrimaryAction(toks, 1),
   targetEntities |-> ExtractEntities(toks),
   relationshipType |-> ExtractRelationship(toks, 1),
   modifiers |-> ExtractModifiers(toks)]

\* extractIntentNodes(query, intent)
ExtractIntentNodes(intent) ==
  <<[type |-> "action", value |-> intent.primaryAction]>>
  \o [k \in DOMAIN intent.targetEntities |->
        [type |-> "entity", value |-> intent.targetEntities[k]]]
  \o (IF intent.relationshipType # ""
      THEN <<[type |-> "relationship", value |-> intent.relationshipType]>>
      ELSE <<>>)
  \o [k \in DOMAIN intent.modifiers |->
        [type |-> "modifier", value |-> intent.modifiers[k]]]

\* projectToGraphNodes(intentNodes, intent); the file path
\* `[VIRTUAL:${node.type}:${node.value}]` is kept as its pieces
ProjectToGraphNodes(intentNodes) ==
  LET kept == SelectSeq(intentNodes, LAMBDA n : n.type \in {"entity", "action"})
  IN [k \in DOMAIN kept |->
        [filePath |-> <<"[VIRTUAL:", kept[k].type, ":", kept[k].value, "]">>,
         language |-> "query-intent",
         symbol |-> kept[k].value]]

\* projectToCallGraph(intentNodes, intent)
ProjectToCallGraph(intentNodes, intent) ==
  LET actions == SelectSeq(intentNodes, LAMBDA n : n.type = "action")
      ents == intent.targetEntities
  IN (IF Len(actions) > 0
      THEN [k \in DOMAIN ents |->
              [from |-> actions[1].value, to |-> ents[k], symbol |-> ents[k]]]
      ELSE <<>>)
     \o (IF intent.relationshipType # "" /\ Len(ents) > 1
         THEN [k \in 1..(Len(ents) - 1) |->
                 [from |-> ents[k], to |-> ents[k + 1],
                  symbol |-> intent.relationshipType]]
         ELSE <<>>)

\* buildQueryIntentGraph(query)
BuildQueryIntentGraph(toks) ==
  LET intent == AnalyzeIntent(toks)
      intentNodes == ExtractIntentNodes(intent)
  IN [intentType |-> intent.primaryAction,
      nodes |-> ProjectToGraphNodes(intentNodes),
      callGraph |-> ProjectToCallGraph(intentNodes, intent)]

\* the builder keeps nothing between calls, so one call is followed
BuildIntent(toks) ==
  /\ ~intentCall.asked
  /\ intentCall' = [asked |-> TRUE, tokens |-> toks]
  /\ intentGraph' = BuildQueryIntentGraph(toks)
  /\ UNCHANGED <<coreVars, raceVars, orchVars, tokVars, importVars, centralVars>>

IntentNext == \E toks \in TaggedQueries : BuildIntent(toks)

InitIntent == OthersIdle /\ ExtInit

SpecIntent == InitIntent /\ [][IntentNext]_vars

\* ----------------------------------------------------------------- SpecRace
\* The eighth specification follows one file through generateIndex and
\* updateGraph at the grain of their awaits, while the file is rewritten at
\* any time.  Both read the file twice, once to hash it and once to extract
\* its node.

RaceDigests == 1..(MaxDigest + 1)

\* the user or a tool rewrites the file
RaceWrite(d) ==
  /\ d # raceDisk
  /\ raceDisk' = d
  /\ raceReport' = "none"
  /\ UNCHANGED <<raceNode, raceHash, racePc, raceTmp, coreVars, intentVars, orchVars, tokVars, importVars,
               centralVars>>

\* Indexer.generateIndex reaches the file: calculateHash, fileHashes.set
IndexHash ==
  /\ racePc = "idle"
  /\ raceTmp' = raceDisk
  /\ racePc' = "index:node"
  /\ raceReport' = "none"
  /\ UNCHANGED <<raceDisk, raceNode, raceHash, coreVars, intentVars, orchVars, tokVars, importVars,
               centralVars>>

\* ... then buildGraphNode, nodes.push; the run returns and
\* generateIndexWithProgress installs the graph and the hash map
IndexNode ==
  /\ racePc = "index:node"
  /\ raceNode' = raceDisk
  /\ raceHash' = raceTmp
  /\ raceTmp' = Absent
  /\ racePc' = "idle"
  /\ UNCHANGED <<raceDisk, raceReport, coreVars, intentVars, orchVars, tokVars, importVars,
               centralVars>>

\* detectChangedFiles hashes the file and compares; on a change
\* performIncrementalUpdate enters updateGraph, which drops the node of a
\* modified file before its loop
RaceDetect ==
  /\ racePc = "idle"
  /\ raceNode # Absent
  /\ LET r == IF raceHash = Absent THEN "added"
               ELSE IF raceHash # raceDisk THEN "modified" ELSE "unchanged"
     IN /\ raceReport' = r
        /\ racePc' = IF r = "unchanged" THEN "idle" ELSE "update:node"
        /\ raceNode' = IF r = "modified" THEN Absent ELSE raceNode
  /\ UNCHANGED <<raceDisk, raceHash, raceTmp, coreVars, intentVars, orchVars, tokVars, importVars,
               centralVars>>

\* updateGraph: newNode = await buildGraphNode(filePath), nodes.push(newNode)
UpdateNode ==
  /\ racePc = "update:node"
  /\ raceNode' = raceDisk
  /\ racePc' = "update:hash"
  /\ UNCHANGED <<raceDisk, raceHash, raceTmp, raceReport, coreVars, intentVars, orchVars, tokVars, importVars,
               centralVars>>

\* updateGraph: newHash = await calculateHash(filePath), fileHashes.set
UpdateHash ==
  /\ racePc = "update:hash"
  /\ raceHash' = raceDisk
  /\ racePc' = "idle"
  /\ UNCHANGED <<raceDisk, raceNode, raceTmp, raceReport, coreVars, intentVars, orchVars, tokVars, importVars,
               centralVars>>

RaceNext ==
  \/ \E d \in RaceDigests : RaceWrite(d)
  \/ IndexHash
  \/ IndexNode
  \/ RaceDetect
  \/ UpdateNode
  \/ UpdateHash

InitRace == OthersIdle /\ ExtInit

SpecRace == InitRace /\ [][RaceNext]_vars

\* ----------------------------------------------------------------- SpecOrch
\* The ninth specification follows the versions of the persisted artifacts
\* and of the three indices of the orchestrator through initialize, at the
\* grain of its awaits.

MaxVersions == 3

\* saveIndicesToDisk(workspacePath, graph, report): writeFileSync of the
\* artifacts, at the end of a full index or of an incremental update
SaveIndicesToDisk ==
  /\ artifacts < MaxVersions
  /\ artifacts' = artifacts + 1
  /\ UNCHANGED <<orch, orchPc, orchHost, coreVars, intentVars, raceVars, tokVars, importVars,
               centralVars>>

\* generateIndexWithProgress ("index") or performIncrementalUpdate ("update",
\* only when state.copilotInitialized) calls orchestrator.initialize, which
\* awaits the read of context-graph.json
StartInitialize(caller) ==
  /\ orchPc.at = "idle"
  /\ artifacts > 0
  /\ caller = "update" => orchHost.copilotInitialized
  /\ orchPc' = [at |-> "readGraph", caller |-> caller]
  /\ UNCHANGED <<artifacts, orch, orchHost, coreVars, intentVars, raceVars, tokVars, importVars,
               centralVars>>

\* initialize threw: generateIndexWithProgress falls back to basic search,
\* performIncrementalUpdate only logs
InitializeFailed ==
  /\ orchPc' = OrchIdle
  /\ orchHost' = IF orchPc.caller = "index"
                 THEN [copilotInitialized |-> FALSE] ELSE orchHost

\* initialize resumes after an await, which resolved (ok) or threw
\*   readGraph   loadIndices: context-graph.json read and parsed
\*   readSearch  loadIndices: search_index.json read and parsed
\*   model       semanticRetriever.initialize(); then
\*               bm25Retriever.indexSearchIndex and the start of
\*               semanticRetriever.indexSearchIndex, which clears documents
\*   embed       the embeddings; then graphScorer.loadContextGraph and
\*               isInitialized = true
ResumeInitialize(ok) ==
  /\ orchPc.at # "idle"
  /\ IF ~ok
     THEN /\ InitializeFailed
          /\ UNCHANGED orch
     ELSE CASE orchPc.at = "readGraph" ->
                 /\ orch' = [orch EXCEPT !.contextGraph = artifacts]
                 /\ orchPc' = [orchPc EXCEPT !.at = "readSearch"]
                 /\ UNCHANGED orchHost
            [] orchPc.at = "readSearch" ->
                 /\ orch' = [orch EXCEPT !.searchIndex = artifacts]
                 /\ orchPc' = [orchPc EXCEPT !.at = "model"]
                 /\ UNCHANGED orchHost
            [] orchPc.at = "model" ->
                 /\ orch' = [orch EXCEPT
                               !.lexical = orch.searchIndex,
                               !.vector = [ver |-> orch.searchIndex,
                                           complete |-> FALSE]]
                 /\ orchPc' = [orchPc EXCEPT !.at = "embed"]
                 /\ UNCHANGED orchHost
            [] orchPc.at = "embed" ->
                 /\ orch' = [orch EXCEPT !.vector.complete = TRUE,
                                         !.graph = orch.contextGraph,
                                         !.isInitialized = TRUE]
                 /\ orchPc' = OrchIdle
                 /\ orchHost' = IF orchPc.caller = "index"
                                THEN [copilotInitialized |-> TRUE]
                                ELSE orchHost
  /\ UNCHANGED <<artifacts, coreVars, intentVars, raceVars, tokVars, importVars,
               centralVars>>

OrchNext ==
  \/ SaveIndicesToDisk
  \/ \E caller \in {"index", "update"} : StartInitialize(caller)
  \/ \E ok \in BOOLEAN : ResumeInitialize(ok)

InitOrch == OthersIdle /\ ExtInit

SpecOrch == InitOrch /\ [][OrchNext]_vars

\* ------------------------------------------------------------------ SpecTok
\* The tenth specification tokenizes symbols as
\* BM25LexicalRetriever.indexSearchIndex does.  A text is a sequence of
\* characters of a small alphabet.

MaxChars == 4
Lowers == {"a", "b", "s"}
Uppers == {"A", "B"}
Alphabet == {"a", "s", "A", "B", "_"}
Texts(n) == UNION {[1..k -> Alphabet] : k \in 0..n}

\* String.prototype.toLowerCase
LowerChar(c) == CASE c = "A" -> "a" [] c = "B" -> "b" [] OTHER -> c
ToLowerCase(text) == [i \in DOMAIN text |-> LowerChar(text[i])]

\* text.split(sep).filter(t => t.length > 0), for a separator of one
\* character out of seps
RECURSIVE SplitAt(_, _, _, _)
SplitAt(text, seps, i, cur) ==
  IF i > Len(text) THEN (IF cur = <<>> THEN <<>> ELSE <<cur>>)
  ELSE IF text[i] \in seps
       THEN (IF cur = <<>> THEN <<>> ELSE <<cur>>) \o SplitAt(text, seps, i + 1, <<>>)
       ELSE SplitAt(text, seps, i + 1, Append(cur, text[i]))

\* token.split(/(?<=[a-z])(?=[A-Z])|(?<=[A-Z])(?=[A-Z][a-z])/): a cut after
\* place i
CamelCut(tok, i) ==
  /\ i < Len(tok)
  /\ \/ tok[i] \in Lowers /\ tok[i + 1] \in Uppers
     \/ /\ tok[i] \in Uppers /\ tok[i + 1] \in Uppers
        /\ i + 2 <= Len(tok) /\ tok[i + 2] \in Lowers
RECURSIVE CamelSplit(_, _, _)
CamelSplit(tok, i, cur) ==
  IF i > Len(tok) THEN (IF cur = <<>> THEN <<>> ELSE <<cur>>)
  ELSE IF CamelCut(tok, i)
       THEN <<Append(cur, tok[i])>> \o CamelSplit(tok, i + 1, <<>>)
       ELSE CamelSplit(tok, i + 1, Append(cur, tok[i]))
CamelParts(tok) == CamelSplit(tok, 1, <<>>)

\* natural.PorterStemmer.stem on a lower-case word of this alphabet: words
\* of fewer than three letters are kept, and of the steps only 1a finds a
\* suffix (a final s that does not follow an s is dropped)
Stem(w) ==
  IF Len(w) < 3 THEN w
  ELSE IF w[Len(w)] = "s" /\ w[Len(w) - 1] # "s"
       THEN SubSeq(w, 1, Len(w) - 1)
       ELSE w

StemAll(parts) == [k \in DOMAIN parts |-> Stem(ToLowerCase(parts[k]))]

\* tokenize(text)
RECURSIVE Expand(_, _)
Expand(tokens, i) ==
  IF i > Len(tokens) THEN <<>>
  ELSE LET token == tokens[i]
           camelParts == CamelParts(token)
           snakeParts == SplitAt(token, {"_"}, 1, <<>>)
       IN <<Stem(ToLowerCase(token))>>
          \o (IF Len(camelParts) > 1 THEN StemAll(camelParts) ELSE <<>>)
          \o (IF Len(snakeParts) > 1 THEN StemAll(snakeParts) ELSE <<>>)
          \o Expand(tokens, i + 1)
Tokenize(text) == Expand(SplitAt(text, {"_", " "}, 1, <<>>), 1)

\* the parts of a symbol joined by blanks, as parts.join(' ') leaves them,
\* before toLowerCase
JoinParts(sym) ==
  sym.symbol \o (IF sym.symbol # <<>> /\ sym.file # <<>> THEN <<" ">> ELSE <<>>)
             \o sym.file

\* createSearchableText(symbol): parts.join(' ').toLowerCase()
CreateSearchableText(sym) == ToLowerCase(JoinParts(sym))

\* indexSearchIndex: the tokens of the document of one symbol
TokIndexSymbol(name, file) ==
  /\ ~tokSymbol.indexed
  /\ tokSymbol' = [indexed |-> TRUE, symbol |-> name, file |-> file]
  /\ tokTokens' = Tokenize(CreateSearchableText(tokSymbol'))
  /\ UNCHANGED <<coreVars, intentVars, raceVars, orchVars, importVars,
                 centralVars>>

TokNext ==
  \E name \in Texts(MaxChars) \ {<<>>}, file \in {<<>>, <<"b">>} :
    TokIndexSymbol(name, file)

InitTok == OthersIdle /\ ExtInit

SpecTok == InitTok /\ [][TokNext]_vars

\* --------------------------------------------------------------- SpecImport
\* The eleventh specification asks GraphAwareRelevanceScorer for the import
\* proximity of a file, over every import graph on three files (cycles and
\* self-imports included) and every placing of the two query entities.

ImportFiles == GraphFiles \cup {"c"}
ImportMaps == [ImportFiles -> SUBSET ImportFiles]

\* the scorer's store with import graph m and with the entities f and g
\* declared in files ff and gf ("" for none)
StoreWith(m, ff, gf) ==
  [NoStore EXCEPT
     !.loaded = TRUE,
     !.importGraphMap = m,
     !.symbolToFile = [n \in EdgeNames |->
                         IF n = "f" THEN ff ELSE IF n = "g" THEN gf ELSE ""]]

\* computeImportProximity(filePath, queryEntities) for the entities f and g
ImportProximityCall(m, file, ff, gf) ==
  /\ ~importCall.asked
  /\ LET targets == {ff, gf} \ {""} IN
       /\ importCall' = [asked |-> TRUE, map |-> m, file |-> file,
                         targets |-> targets]
       /\ importResult' =
            [distance |-> ComputeMinImportDistance(m, file, targets),
             proximity |-> ComputeImportProximity(StoreWith(m, ff, gf), file,
                                                  <<"f", "g">>)]
  /\ UNCHANGED <<coreVars, intentVars, raceVars, orchVars, tokVars,
                 centralVars>>

ImportNext ==
  \E m \in ImportMaps, file \in ImportFiles,
     ff \in ImportFiles \cup {""}, gf \in {"", "c"} :
    ImportProximityCall(m, file, ff, gf)

InitImport == OthersIdle /\ ExtInit

SpecImport == InitImport /\ [][ImportNext]_vars

\* -------------------------------------------------------------- SpecCentral
\* The twelfth specification loads one corpus graph into a fresh
\* GraphAwareRelevanceScorer: one, two or three symbols, and any set of call
\* edges between the names f, g and c0 (self-calls, cycles and callers that
\* are no symbols of the corpus included).

CentralNames == {"f", "g", "c0"}
CentralSymbols == {<<"f">>, <<"f", "g">>, <<"f", "g", "c0">>}
CentralGraphs ==
  {[nodes |-> <<[filePath |-> "a", symbols |-> syms, imports |-> {}]>>,
    callGraph |-> es] :
   syms \in CentralSymbols, es \in SUBSET (CentralNames \X CentralNames)}

\* loadContextGraph(graph) on a new scorer
CentralLoad(g) ==
  /\ ~centralCall.asked
  /\ centralCall' = [asked |-> TRUE, graph |-> g]
  /\ centralStore' = LoadContextGraph(NoStore, g)
  /\ UNCHANGED <<coreVars, intentVars, raceVars, orchVars, tokVars,
                 importVars>>

CentralNext == \E g \in CentralGraphs : CentralLoad(g)

InitCentral == OthersIdle /\ ExtInit

SpecCentral == InitCentral /\ [][CentralNext]_vars

\* =================================================================== claims

NodesOf(ns, p) == SelectSeq(ns, LAMBDA n : n.filePath = p)
HasNode(ns, p) == \E k \in DOMAIN ns : ns[k].filePath = p
HasFreshNode(ns, p, D) ==
  \E k \in DOMAIN ns : ns[k].filePath = p /\ ns[k].ver = D[p]
NoRepeat(s) == \A i, j \in DOMAIN s : i # j => s[i] # s[j]

DetectContract(P, r, H, D) ==
  /\ Range(r.added) = {p \in Range(P) : D[p] # Absent /\ H[p] = Absent}
  /\ Range(r.modified) =
       {p \in Range(P) : D[p] # Absent /\ H[p] # Absent /\ H[p] # D[p]}
  /\ Range(r.deleted) = {p \in Paths : H[p] # Absent /\ D[p] = Absent}
  /\ NoRepeat(r.added \o r.modified \o r.deleted)
  /\ \A p \in Paths :
       (D[p] # Absent /\ H[p] = D[p]) =>
          p \notin Range(r.added \o r.modified \o r.deleted)

C2_UpdateEffect ==
  [][ ( /\ last'.op = "update"
        /\ \A p \in Range(last'.result.modified \o last'.result.added) :
             last'.out[p] = "ok" ) =>
        LET ch     == last'.result
            parsed == Range(ch.modified \o ch.added)
            gone   == Range(ch.deleted)
        IN /\ \A p \in gone : ~HasNode(nodes', p) /\ fileHashes'[p] = Absent
           /\ \A p \in parsed :
                HasFreshNode(nodes', p, disk) /\ fileHashes'[p] = disk[p]
           /\ \A p \in Paths \ (parsed \cup gone) :
                /\ NodesOf(nodes', p) = NodesOf(nodes, p)
                /\ fileHashes'[p] = fileHashes[p] ]_vars

\* C2 witness: an update without failures that re-extracted a modified file
\* and dropped a deleted one
C2_Witness ==
  /\ last.op = "update"
  /\ \A p \in Paths : last.out[p] \in {"ok", "none"}
  /\ Len(last.result.modified) > 0
  /\ Len(last.result.deleted) > 0

\* C3: a file with a stored hash that is removed from disk is reported under
\* deleted exactly once: the first detectChangedFiles call after the removal
\* reports it, and no later call reports it again.
C3_DeletedExactlyOnce ==
  \A p \in Paths : removal[p] \in {"none", "removed", "once"}

C5_FailuresCollected ==
  [][ last'.op = "update" =>
        LET files == last'.result.modified \o last'.result.added
            out   == last'.out
        IN /\ \A p \in Range(files) :
                /\ out[p] \in Failures => Count(last'.errors, p) = 1
                /\ out[p] = "ok" =>
                     /\ Count(last'.errors, p) = 0
                     /\ HasFreshNode(nodes', p, disk)
                     /\ fileHashes'[p] = disk[p]
           /\ Range(last'.errors) \subseteq Range(files)
           /\ (\A p \in Range(files) : out[p] # "skip") =>
                \A p \in Range(files) : out[p] \in Failures \cup {"ok"} ]_vars

\* C5 witness: an update in which a file failed and a later file succeeded
C5_Witness ==
  /\ last.op = "update"
  /\ LET files == last.result.modified \o last.result.added
     IN \E i, j \in DOMAIN files :
          /\ i < j
          /\ last.out[files[i]] \in Failures
          /\ last.out[files[j]] = "ok"
          /\ Count(last.errors, files[i]) = 1
          /\ HasFreshNode(nodes, files[j], disk)

\* C6: a path has an entry in the hash map only if its extraction succeeded:
\* after generateIndex and after every updateGraph each path in the hash map
\* has a node in the graph.
C6_HashOnlyIfExtracted ==
  hasIndex => \A p \in Paths : fileHashes[p] # Absent => HasNode(nodes, p)

\* C7: at no time are two operations among full index, incremental update,
\* orchestrator initialize and query in flight together; in particular no
\* two incremental updates overlap, and no query reads the vector index
\* between its being cleared and its being rebuilt.
C7_MutualExclusion ==
  /\ Cardinality(InFlight) <= 1
  /\ Cardinality({i \in Slots : ops[i] \in UpdatePcs}) <= 1
  /\ lastRead # "cleared"

\* C8: with an index loaded, a burst of notifications, each less than
\* DebounceDelay after the one before, starts exactly one incremental update:
\* none while the burst lasts, and one once DebounceDelay has passed without a
\* notification and the timer has run.
C8_Debounce ==
  [][ /\ fired' > fired => (quiet >= DebounceDelay /\ fired' = 1)
      /\ (burst'.n > 0 /\ quiet' < DebounceDelay) => fired' = 0
      /\ (burst'.n > 0 /\ quiet' = DebounceDelay /\ 0 \notin timers') =>
            fired' = 1 ]_vars

\* C8 witness: a burst of several notifications, one of which postponed a
\* running timer, after which the single update has been started
C8_Witness ==
  /\ burst.n >= 2
  /\ burst.late
  /\ quiet = DebounceDelay
  /\ fired = 1
  /\ pendingChanges = {}

ResultsFor(sym) == SelectSeq(hybridResults, LAMBDA r : r.meta = sym)

ReturnedByBoth(sym) ==
  /\ \E i \in DOMAIN bm25Documents :
       bm25Documents[i].meta = sym /\ rankIn.raw[i] > 0
  /\ \E i \in DOMAIN semDocuments :
       semDocuments[i].meta = sym /\ rankIn.cos[i] > RelevanceThreshold

\* C9: every indexed symbol has the same documentId in the lexical and in the
\* vector index, and a symbol that both retrievers return appears in the
\* output of HybridReranker.search (when nothing is cut off) as exactly one
\* entry, which carries both its lexical and its semantic score.
C9_SharedDocumentId ==
  /\ \A i \in DOMAIN bm25Documents, j \in DOMAIN semDocuments :
       bm25Documents[i].meta = semDocuments[j].meta =>
          bm25Documents[i].id = semDocuments[j].id
  /\ (rankOp = "search" /\ rankIn.topK = 0) =>
       \A sym \in Locs :
          ReturnedByBoth(sym) =>
             /\ Len(ResultsFor(sym)) = 1
             /\ \E i \in DOMAIN bm25Documents :
                  /\ bm25Documents[i].meta = sym
                  /\ ResultsFor(sym)[1].scores.bm25 =
                       NormalizeBm25(rankIn.raw[i], rankIn.maxScore)
             /\ \E i \in DOMAIN semDocuments :
                  /\ semDocuments[i].meta = sym
                  /\ ResultsFor(sym)[1].scores.semantic = rankIn.cos[i]

InUnit(x, one) == 0 <= x /\ x <= one

\* C10: every result of HybridReranker.search and HybridReranker.rerank has
\* its bm25, semantic and hybrid score within [0,1], whatever the cosine of
\* the stored vectors with the query.
C10_ScoreRange ==
  rankOp \in {"search", "rerank"} =>
    \A i \in DOMAIN hybridResults :
       /\ InUnit(hybridResults[i].scores.bm25, One)
       /\ InUnit(hybridResults[i].scores.semantic, One)
       /\ InUnit(hybridResults[i].scores.hybrid, One * One)

\* the stored embedding of the entry's symbol, if the vector index holds one
EmbeddingOf(meta) == {j \in DOMAIN semDocuments : semDocuments[j].meta = meta}
\* the lexical document of the entry's symbol, if the lexical index holds one
LexicalOf(meta) == {k \in DOMAIN bm25Documents : bm25Documents[k].meta = meta}

IsBm25Id(id) == \E k \in DOMAIN bm25Documents : bm25Documents[k].id = id
IsSemanticId(id) == \E j \in DOMAIN semDocuments : semDocuments[j].id = id

\* C11: in the output of HybridReranker.search the semantic component of a
\* candidate that the semantic retriever returned is (cosine + 1) / 2 of its
\* raw cosine, and that value enters the hybrid sum.
C11_SemanticNormalised ==
  rankOp = "search" =>
    \A i \in DOMAIN hybridResults, j \in DOMAIN semDocuments :
       ( /\ hybridResults[i].documentId = semDocuments[j].id
         /\ rankIn.cos[j] > RelevanceThreshold ) =>
          /\ hybridResults[i].scores.semantic = NormalizeSemantic(rankIn.cos[j])
          /\ hybridResults[i].scores.hybrid =
               Bm25Weight * hybridResults[i].scores.bm25
               + SemanticWeight * NormalizeSemantic(rankIn.cos[j])

\* C12: in the output of HybridReranker.search a candidate that only the
\* lexical retriever returned carries the similarity of its symbol's stored
\* embedding (raw or mapped to [0,1]) whenever the vector index holds one, and
\* a candidate that only the semantic retriever returned carries the BM25
\* score of its symbol's lexical document whenever the lexical index holds
\* one; the other score is 0 only when the other index has nothing for it.
C12_OtherScoreOnDemand ==
  (rankOp = "search" /\ rankIn.topK = 0) =>
    \A i \in DOMAIN hybridResults :
       LET r == hybridResults[i] IN
       /\ (IsBm25Id(r.documentId) /\ ~IsSemanticId(r.documentId)) =>
            \A j \in EmbeddingOf(r.meta) :
               r.scores.semantic \in {rankIn.cos[j],
                                      NormalizeSemantic(rankIn.cos[j])}
       /\ (IsSemanticId(r.documentId) /\ ~IsBm25Id(r.documentId)) =>
            \A k \in LexicalOf(r.meta) :
               r.scores.bm25 = NormalizeBm25(rankIn.raw[k], rankIn.maxScore)

\* the place of a result in the candidate union: the lexical results, best
\* first, then the semantic results that the lexical retriever did not
\* return, best first; equal scores keep the order of the index
Bm25Pos(id) == CHOOSE k \in DOMAIN bm25Documents : bm25Documents[k].id = id
SemanticPos(id) == CHOOSE j \in DOMAIN semDocuments : semDocuments[j].id = id

CandidateBefore(x, y) ==
  \/ IsBm25Id(x) /\ ~IsBm25Id(y)
  \/ /\ IsBm25Id(x) /\ IsBm25Id(y)
     /\ \/ rankIn.raw[Bm25Pos(x)] > rankIn.raw[Bm25Pos(y)]
        \/ /\ rankIn.raw[Bm25Pos(x)] = rankIn.raw[Bm25Pos(y)]
           /\ Bm25Pos(x) < Bm25Pos(y)
  \/ /\ ~IsBm25Id(x) /\ ~IsBm25Id(y)
     /\ \/ rankIn.cos[SemanticPos(x)] > rankIn.cos[SemanticPos(y)]
        \/ /\ rankIn.cos[SemanticPos(x)] = rankIn.cos[SemanticPos(y)]
           /\ SemanticPos(x) < SemanticPos(y)

\* the candidates of a search: what either retriever returns
NumCandidates ==
  Cardinality(
    {bm25Documents[k].id : k \in {i \in DOMAIN bm25Documents : rankIn.raw[i] > 0}}
    \cup {semDocuments[j].id :
            j \in {i \in DOMAIN semDocuments :
                     rankIn.cos[i] > RelevanceThreshold}})

\* C13: the output of HybridReranker.search is in non-increasing order of the
\* hybrid score, entries of equal hybrid score keep their order in the
\* candidate union, the list has at most finalTopK entries (topK when it is
\* positive, else the configured 20) and the ranks are 1, 2, ..., n.
C13_OrderCutRank ==
  rankOp = "search" =>
    LET n == Len(hybridResults)
        finalTopK == IF rankIn.topK > 0 THEN rankIn.topK ELSE FinalTopK
    IN /\ \A i, j \in 1..n :
            i < j =>
              /\ hybridResults[i].scores.hybrid >= hybridResults[j].scores.hybrid
              /\ hybridResults[i].scores.hybrid = hybridResults[j].scores.hybrid
                   => CandidateBefore(hybridResults[i].documentId,
                                      hybridResults[j].documentId)
       /\ ~rankErr.thrown => n = Min(finalTopK, NumCandidates)
       /\ \A i \in 1..n : hybridResults[i].rank = i

\* C13 witness: a search whose topK cut candidates off and whose first two
\* results have the same hybrid score
C13_Witness ==
  /\ rankOp = "search"
  /\ rankIn.topK > 0
  /\ NumCandidates > rankIn.topK
  /\ Len(hybridResults) >= 2
  /\ hybridResults[1].scores.hybrid = hybridResults[2].scores.hybrid
  /\ hybridResults[1].scores.hybrid > 0

\* the ratio of two weights, in lowest terms
Ratio(b, s) == <<b \div Gcd(b, s), s \div Gcd(b, s)>>

\* C14: after the constructor and after every updateConfig the two weights
\* sum to 1; an updateConfig that supplies a weight leaves the weights in the
\* ratio of the merged values, and one that supplies none leaves them as they
\* were.
C14_WeightsSumToOne ==
  /\ config.den # 0
  /\ config.bm25Weight + config.semanticWeight = config.den
  /\ configCall.op = "update" =>
       LET m == MergeConfig(configCall.before, configCall.bm25Weight,
                            configCall.semanticWeight)
       IN IF configCall.bm25Weight = Unset /\ configCall.semanticWeight = Unset
          THEN config = configCall.before
          ELSE Ratio(config.bm25Weight, config.semanticWeight) =
                 Ratio(m.bm25Weight, m.semanticWeight)

SharesToken(d) == Range(lexIndex.documents[d]) \cap Range(lexCall.tokens) # {}
Returned(d) == \E i \in DOMAIN lexResults : lexResults[i].doc = d

\* C15: BM25LexicalRetriever.search(query, topK) with topK > 0 returns only
\* documents that share a token with the query, each with a score above 0, in
\* non-increasing order of score, at most topK of them, and leaves out no
\* document sharing a token whose score is above that of a returned one; an
\* empty query or an empty corpus gives the empty list.
C15_LexicalSearch ==
  (lexCall.op = "search" /\ lexCall.topK > 0) =>
    /\ \A i \in DOMAIN lexResults :
         /\ SharesToken(lexResults[i].doc)
         /\ lexResults[i].score > 0
         /\ lexResults[i].score =
              CalculateBM25Score(lexIndex, lexResults[i].doc, lexCall.tokens, 1)
    /\ \A i, j \in DOMAIN lexResults :
         i < j => /\ lexResults[i].score >= lexResults[j].score
                  /\ lexResults[i].doc # lexResults[j].doc
    /\ Len(lexResults) <= lexCall.topK
    /\ \A d \in DOMAIN lexIndex.documents :
         (SharesToken(d) /\ ~Returned(d)) =>
            /\ Len(lexResults) = lexCall.topK
            /\ \A i \in DOMAIN lexResults :
                 CalculateBM25Score(lexIndex, d, lexCall.tokens, 1)
                   <= lexResults[i].score
    /\ (lexCall.tokens = <<>> \/ lexIndex.documents = <<>>) => lexResults = <<>>

\* C15 witness: a search that returned the best of several matching documents
\* of different scores, cut by topK, over a corpus that also holds a document
\* without any query token
C15_Witness ==
  /\ lexCall.op = "search"
  /\ lexCall.topK = 1
  /\ Len(lexResults) = 1
  /\ \E d \in DOMAIN lexIndex.documents :
       /\ SharesToken(d)
       /\ ~Returned(d)
       /\ CalculateBM25Score(lexIndex, d, lexCall.tokens, 1) < lexResults[1].score
       /\ d < lexResults[1].doc
  /\ \E d \in DOMAIN lexIndex.documents : ~SharesToken(d)

\* The scorer of a fresh engine that loaded only the graph now in force
FreshStore == LoadContextGraph(NoStore, graphStore.contextGraph)

\* C16: indexing rebuilds from scratch: after index(A) and then index(B) the
\* lexical index, the graph store (adjacency maps, symbol-to-file map,
\* centrality) and every query result are those of a fresh engine that only
\* indexed and loaded B.
C16_RebuiltFromScratch ==
  /\ lexIndex = BuildLexIndex(lexIndex.documents)
  /\ graphStore.loaded => graphStore = FreshStore
  /\ graphQuery.asked =>
       graphScored = ScoreSymbols(FreshStore, graphQuery.queryGraph)

\* Two symbols named f, one in file a and one in file b; the ten callers call
\* the one of a, nothing calls the one of b; the graph is the first one loaded
TwoNamesakes ==
  /\ graphLoads = 1
  /\ \E i, j \in DOMAIN graphStore.contextGraph.nodes :
       /\ graphStore.contextGraph.nodes[i].filePath = "a"
       /\ graphStore.contextGraph.nodes[j].filePath = "b"
       /\ "f" \in Range(graphStore.contextGraph.nodes[i].symbols)
       /\ CallerNames \subseteq Range(graphStore.contextGraph.nodes[i].symbols)
       /\ graphStore.contextGraph.nodes[j].symbols = <<"f">>
  /\ graphStore.contextGraph.callGraph = {<<c, "f">> : c \in CallerNames}

\* C17: of two symbols with the same name in different files, one with ten
\* callers and one with none, the graph scorer gives different reference
\* densities and different centralities, and when their hybrid scores are
\* tied the combined ranking places the one with the callers first.
C17_NamesakesTellApart ==
  (TwoNamesakes /\ graphQuery.asked) =>
    /\ \A i, j \in DOMAIN graphScored :
         (/\ graphScored[i].symbol = "f" /\ graphScored[i].file = "a"
          /\ graphScored[j].symbol = "f" /\ graphScored[j].file = "b")
         => /\ graphScored[i].score.referenceDensity
                 # graphScored[j].score.referenceDensity
            /\ graphScored[i].score.centrality
                 # graphScored[j].score.centrality
    /\ (/\ Len(graphQuery.hybridResults) = 2
        /\ \A k \in DOMAIN graphQuery.hybridResults :
             /\ graphQuery.hybridResults[k].meta.symbol = "f"
             /\ graphQuery.hybridResults[k].scores.hybrid = 50)
       => graphFinal[1].meta.file = "a"

\* C18: a query vector and a stored vector of different lengths always end in
\* an error raised to the caller: the error leaves SemanticRetriever.search,
\* and it leaves HybridReranker.search, which never answers with an empty or
\* partial list instead.
C18_MismatchRaised ==
  (rankOp = "search" /\ SemanticThrows(semDocuments, rankIn.cos)) =>
    /\ rankErr.thrown
    /\ rankErr.raised

\* the semantic retriever answered the search with no results
SemanticSilent ==
  /\ ~SemanticThrows(semDocuments, rankIn.cos)
  /\ SemanticSearch(semDocuments, rankIn.cos, RetrievalTopK) = <<>>
\* scoreSymbols() returned nothing: no corpus graph is loaded
GraphMissing == rankIn.graphScores = NoGraphScores
\* the lexical ranking of the query, cut as its hybrid search cuts
LexicalRanking ==
  Take(Bm25Search(bm25Documents, rankIn.raw, RetrievalTopK),
       IF rankIn.topK * 2 > 0 THEN rankIn.topK * 2 ELSE FinalTopK)

\* C19 as stated: with no semantic results and no corpus graph the pipeline
\* returns the lexical candidates in lexical order, each with semantic score 0
\* and hybrid = wLex * lexicalNorm.
C19_DegradedAsStated ==
  (rankOp = "query" /\ SemanticSilent /\ GraphMissing) =>
    /\ ~rankErr.raised
    /\ Len(finalResults) = Min(rankIn.topK, Len(LexicalRanking))
    /\ \A i \in DOMAIN finalResults :
         /\ finalResults[i].documentId = LexicalRanking[i].documentId
         /\ finalResults[i].scores.semantic = 0
         /\ finalResults[i].scores.hybrid =
              10000 * Bm25Weight
                * NormalizeBm25(LexicalRanking[i].score, rankIn.maxScore)

\* C19, amended: no error is raised; with no semantic results the hybrid
\* search returns the lexical candidates in lexical order, each with semantic
\* score 0 and hybrid = wLex * lexicalNorm; with no corpus graph combineScores
\* takes every graph score as 0, so it returns the first topK hybrid results
\* in their order, each with the combined score 0.4 * hybrid.
C19_DegradedMode ==
  rankOp = "query" =>
    /\ ~rankErr.raised
    /\ SemanticSilent =>
         /\ Len(hybridResults) = Len(LexicalRanking)
         /\ \A i \in DOMAIN hybridResults :
              /\ hybridResults[i].documentId = LexicalRanking[i].documentId
              /\ hybridResults[i].scores.semantic = 0
              /\ hybridResults[i].scores.hybrid =
                   Bm25Weight
                     * NormalizeBm25(LexicalRanking[i].score, rankIn.maxScore)
    /\ GraphMissing =>
         /\ Len(finalResults) = Min(rankIn.topK, Len(hybridResults))
         /\ \A i \in DOMAIN finalResults :
              finalResults[i] =
                [hybridResults[i] EXCEPT
                   !.scores.hybrid = 4000 * hybridResults[i].scores.hybrid]

\* C19 witness: a query with stored embeddings, none of them near the query,
\* and no corpus graph, that returned two lexical candidates with different
\* positive scores
C19_Witness ==
  /\ rankOp = "query"
  /\ semDocuments # <<>>
  /\ SemanticSilent
  /\ GraphMissing
  /\ Len(finalResults) = 2
  /\ finalResults[1].scores.hybrid > finalResults[2].scores.hybrid
  /\ finalResults[2].scores.hybrid > 0

\* C20: once cancellation of generateIndex is requested, the run begins no
\* file beyond the batch in flight and ends by raising the cancellation
\* error: it returns no graph, report or hash map, and the stored corpus, the
\* updater's hash map and the report stay as they were.
C20_CancelRaises ==
  [][ (last' # last /\ last'.op = "index" /\ last'.cancel.requested) =>
        /\ last'.cancel.raised
        /\ nodes' = nodes
        /\ callGraph' = callGraph
        /\ fileHashes' = fileHashes
        /\ hasIndex' = hasIndex ]_vars

\* the entries of a report's error list for file p
ErrorsOf(rep, p) == SelectSeq(rep.errors, LAMBDA e : e.file = p)

\* C21: in generateIndex without cancellation no failure of a file ends the
\* run and every scanned file is accounted for exactly once, as one node or
\* as one error entry, tagged 'scanning' for a file over the size limit and
\* 'parsing' for any other failure; on return successfulFiles is the number
\* of nodes, skippedFiles the number of 'scanning' errors, and
\* successfulFiles + errors.length = totalFiles.
C21_EveryFileAccounted ==
  (last.op = "index" /\ ~last.cancel.requested) =>
    LET rep == last.report IN
    /\ hasIndex
    /\ \A p \in Range(last.scan) :
         /\ Len(NodesOf(nodes, p)) + Len(ErrorsOf(rep, p)) = 1
         /\ \A k \in DOMAIN ErrorsOf(rep, p) :
              ErrorsOf(rep, p)[k].phase =
                (IF p \in last.big THEN "scanning" ELSE "parsing")
         /\ p \in last.big => Len(ErrorsOf(rep, p)) = 1
    /\ \A k \in DOMAIN nodes : nodes[k].filePath \in Range(last.scan)
    /\ \A k \in DOMAIN rep.errors : rep.errors[k].file \in Range(last.scan)
    /\ rep.totalFiles = Len(last.scan)
    /\ rep.successfulFiles = Len(nodes)
    /\ rep.skippedFiles =
         Len(SelectSeq(rep.errors, LAMBDA e : e.phase = "scanning"))
    /\ rep.successfulFiles + Len(rep.errors) = rep.totalFiles

\* C21 witness: a run over two files that returned one node and one
\* 'scanning' error
C21_Witness ==
  /\ last.op = "index"
  /\ ~last.cancel.requested
  /\ Len(last.scan) = 2
  /\ last.report.successfulFiles = 1
  /\ last.report.skippedFiles = 1

\* the words of the query that extractEntities keeps, and their first places
EntityPlaces ==
  {j \in DOMAIN intentCall.tokens :
     \/ intentCall.tokens[j].tag = "NN"
     \/ intentCall.tokens[j].word \in codeEntities
     \/ IsIdentifier(intentCall.tokens[j].word)}
EntityWords == {intentCall.tokens[i].word : i \in EntityPlaces}
FirstPlace(w) ==
  CHOOSE i \in EntityPlaces :
    /\ intentCall.tokens[i].word = w
    /\ \A j \in EntityPlaces : j < i => intentCall.tokens[j].word # w
ActionPlaces ==
  {i \in DOMAIN intentCall.tokens :
     intentCall.tokens[i].word \in codeActions \/ intentCall.tokens[i].tag = "VB"}
HasRelationWord ==
  \E i \in DOMAIN intentCall.tokens : intentCall.tokens[i].word \in codeRelations

\* C22: for a query whose intent has action a (the first recognised
\* action/verb token, 'find' when none) and n deduplicated entities e1..en,
\* the projected graph has exactly 1 + n nodes, each with a file path that
\* starts with '[VIRTUAL:', and its edge list is exactly the n edges a -> ei,
\* followed by the n-1 chain edges ei -> e(i+1) when a relationship word is
\* present, and by no chain edge when none is.
C22_ProjectedStructure ==
  intentCall.asked =>
    LET n == Cardinality(EntityWords)
        g == intentGraph
        a == IF ActionPlaces = {} THEN "find"
             ELSE intentCall.tokens[CHOOSE i \in ActionPlaces :
                                      \A j \in ActionPlaces : i <= j].word
        e == [k \in 1..n |-> g.nodes[k + 1].symbol]
    IN /\ Len(g.nodes) = 1 + n
       /\ \A k \in DOMAIN g.nodes : g.nodes[k].filePath[1] = "[VIRTUAL:"
       /\ g.nodes[1].symbol = a
       /\ {e[k] : k \in 1..n} = EntityWords
       /\ \A j, k \in 1..n : j < k => FirstPlace(e[j]) < FirstPlace(e[k])
       /\ Len(g.callGraph) = (IF HasRelationWord THEN n + (n - 1) ELSE n)
       /\ \A k \in 1..n : /\ g.callGraph[k].from = a
                          /\ g.callGraph[k].to = e[k]
       /\ HasRelationWord =>
            \A k \in 1..(n - 1) : /\ g.callGraph[n + k].from = e[k]
                                  /\ g.callGraph[n + k].to = e[k + 1]

\* C22 witness: a three-word query with a relationship word and a repeated
\* word, projected to three nodes, two action edges and one chain edge
C22_Witness ==
  /\ intentCall.asked
  /\ HasRelationWord
  /\ Len(intentCall.tokens) = 3
  /\ \E i, j \in DOMAIN intentCall.tokens :
       i # j /\ intentCall.tokens[i].word = intentCall.tokens[j].word
  /\ Len(intentGraph.nodes) = 3
  /\ Len(intentGraph.callGraph) = 3

FilesOnDisk == SetToSeq({p \in Paths : disk[p] # Absent})

\* C24: after an indexed file is deleted from disk and the watcher has
\* delivered its delete notification, the incremental update that follows
\* removes the file's node: once it completes, the corpus holds no node of
\* that file.
C24_DeletedNodeRemoved ==
  [][\A p \in Paths :
       (/\ last.op = "onDidDelete"
        /\ last.scan = <<p>>
        /\ last'.op \in {"detect", "update"}
        /\ last'.scan = FilesOnDisk
        /\ last'.unread = {})
       => ~HasNode(nodes', p)]_vars

\* C25: after any sequence of full index, watcher notifications and
\* incremental updates the corpus graph never holds two nodes with the same
\* filePath.
C25_NodeUnique ==
  \A i, j \in DOMAIN nodes : nodes[i].filePath = nodes[j].filePath => i = j

\* C26: the digest that updateGraph stores for a file is the digest of the
\* content its node was extracted from: whenever, between runs, the stored
\* hash equals the digest of the file on disk, the corpus node is of the
\* current content; and a detectChangedFiles that finds the file unchanged
\* leaves a node of the current content.
C26_HashContentAgree ==
  (racePc = "idle" /\ raceNode # Absent) =>
    /\ raceHash = raceDisk => raceNode = raceDisk
    /\ raceReport = "unchanged" => raceNode = raceDisk

\* C27: whenever the orchestrator is ready and queries are routed to it, with
\* no initialize in flight, its lexical index, vector index and graph store
\* were all built completely from the same pair of persisted artifacts; a
\* re-initialize that fails part-way does not leave it ready with indices of
\* different corpus versions.
C27_SnapshotConsistent ==
  (orch.isInitialized /\ orchHost.copilotInitialized /\ orchPc.at = "idle") =>
    /\ orch.lexical > 0
    /\ orch.vector.complete
    /\ orch.vector.ver = orch.lexical
    /\ orch.graph = orch.lexical

\* the raw tokens of the indexed symbol's name as it was written: its
\* maximal runs of letters
RawNameTokens == SplitAt(tokSymbol.symbol, {"_", " "}, 1, <<>>)

\* C28: the tokens of an indexed symbol contain, for every raw token of its
\* name, the stemmed whole token and also its stemmed camelCase segments and
\* snake_case segments.
C28_SegmentsIndexed ==
  tokSymbol.indexed =>
    \A k \in DOMAIN RawNameTokens :
      LET t == RawNameTokens[k]
          segments == Range(CamelParts(t)) \cup Range(SplitAt(t, {"_"}, 1, <<>>))
      IN /\ Stem(ToLowerCase(t)) \in Range(tokTokens)
         /\ \A seg \in segments : Stem(ToLowerCase(seg)) \in Range(tokTokens)

\* the files reached from S by exactly k import edges
RECURSIVE ReachedBy(_, _, _)
ReachedBy(m, S, k) ==
  IF k = 0 THEN S ELSE ReachedBy(m, UNION {m[p] : p \in S}, k - 1)

\* the lengths of the directed import paths from the asked file to a target
PathLengths ==
  {k \in 0..Cardinality(ImportFiles) :
     ReachedBy(importCall.map, {importCall.file}, k) \cap importCall.targets # {}}

\* C29: for every finite import graph, with import cycles and self-imports,
\* computeMinImportDistance terminates and returns 0 when the symbol's file
\* is itself a target, otherwise the number of edges of a shortest directed
\* import path from the file to the nearest target file, and 10 when no
\* target file can be reached; the import proximity is 0.5 when no query
\* entity maps to any file.
C29_ShortestImportPath ==
  importCall.asked =>
    /\ importCall.file \in importCall.targets => importResult.distance = 0
    /\ PathLengths # {} =>
         /\ importResult.distance \in PathLengths
         /\ \A k \in PathLengths : importResult.distance <= k
    /\ PathLengths = {} => importResult.distance = 10
    /\ importCall.targets = {} => importResult.proximity = 500
    /\ importCall.targets # {} =>
         importResult.proximity = ExpTable[importResult.distance + 1]

\* C29 witness: the file imports itself and lies on an import cycle, and the
\* nearest target is two imports away
C29_Witness ==
  /\ importCall.asked
  /\ importCall.file \in importCall.map[importCall.file]
  /\ \E p \in ImportFiles \ {importCall.file} :
       /\ p \in importCall.map[importCall.file]
       /\ importCall.file \in importCall.map[p]
  /\ importResult.distance = 2

\* the symbols of the corpus graph that was loaded
CorpusSymbols == Range(centralCall.graph.nodes[1].symbols)

\* C30: for any corpus with at least one symbol and any call graph (cyclic,
\* with self-calls, or with callers that are no corpus symbols),
\* computeCentrality makes its 20 iterations from mass 1/|V| per symbol and
\* ends; every corpus symbol then has a centrality in (0,1] (counted in
\* thousandths), and at least one symbol has centrality exactly 1.
C30_CentralityRange ==
  centralCall.asked =>
    LET syms  == centralCall.graph.nodes[1].symbols
        start == [i \in DOMAIN syms |-> Mass \div Len(syms)]
        final == PageRank(centralStore, syms, start, 20)
    IN /\ \A n \in CorpusSymbols :
            /\ centralStore.symbolCentrality[n] > 0
            /\ centralStore.symbolCentrality[n] <= 1000
       /\ \E n \in CorpusSymbols : centralStore.symbolCentrality[n] = 1000
       /\ \A i \in DOMAIN syms :
            centralStore.symbolCentrality[syms[i]]
              = (final[i] * 1000) \div MaxOf(final, 1)

\* C30 witness: a corpus of two symbols with a self-call, a call cycle and a
\* caller that is no corpus symbol, where one symbol ends below 1
C30_Witness ==
  /\ centralCall.asked
  /\ Cardinality(CorpusSymbols) = 2
  /\ {<<"f", "f">>, <<"f", "g">>, <<"g", "f">>, <<"c0", "g">>}
       \subseteq centralCall.graph.callGraph
  /\ \E n \in CorpusSymbols : centralStore.symbolCentrality[n] < 1000

====
